---- MODULE Spec2Model ----
(***************************************************************************)
(* Model of the video-generation job pipeline of the steppe backend:       *)
(* ArticleController (generateVideo, getJobStatus, getAllJobs,             *)
(* processVideoGeneration), the Job collection with its unique url index,  *)
(* and the forced-regeneration path.                                       *)
(*                                                                         *)
(* Every await of the controller is one step.  The Job collection is the   *)
(* sequence jobs; a job's identity is its index.  The updatedAt timestamp  *)
(* is not modelled.  A url is a sequence of string tokens, so that         *)
(* url.includes(s) is token membership and differs from a host match.      *)
(* Optional (nullable) fields hold None or Some(v).                        *)
(* A handler writes its response in the turn that computes it: resp and    *)
(* view hold the response while it is written, and nothing else runs until *)
(* it is out.                                                              *)
(*                                                                         *)
(* Inside a run every store operation and every collaborator call either   *)
(* succeeds or fails.  In the request handlers the store answers; the only *)
(* rejection modelled there is the unique index rejecting job.save().      *)
(* The force flag of POST /generate and POST /regenerate/:jobId are routed *)
(* in routes/article.ts but their controller code is not part of the       *)
(* sources; they follow the specification's forced-regeneration path.      *)
(***************************************************************************)
EXTENDS Integers, Sequences, FiniteSets, TLC

\* ------------------------------------------------------------------ bounds
MaxReqs == 2        \* POST /generate and POST /regenerate requests served
MaxLimit == 1       \* largest ?limit= value of GET /jobs that is tried
MaxVideos == 2      \* longest list of videos handed to getBestVideoForTikTok
MaxScriptLen == 5   \* longest script handed to generateSubtitles, in characters
MaxWords == 91      \* most words of a single-spaced script handed to generateSubtitles
MaxTotalDuration == 13  \* longest total duration handed to createContentSegments, in seconds
MaxSentences == 3   \* most sentences of a text handed to a narration synthesizer
MaxSegments == 3    \* most planned segments handed to downloadSegmentMedia
MaxKeyPoints == 2   \* most key points handed to getMediaForArticle
MaxTags == 3        \* most tags handed to getMediaForArticle
MaxTextLen == 6     \* longest short text handed to a text splitter, in characters
MaxSplitLength == 5 \* largest short ceiling handed to a text splitter
MaxQueryWords == 4  \* most words of a sentence handed to extractSearchQuery

\* ------------------------------------------------------------ value model
None == << >>
Some(v) == <<v>>

Statuses == {"pending", "processing", "done", "error"}

SteppeDomain == "the-steppe.com"

\* request bodies: url missing, an article of the source, a foreign article,
\* and a foreign url that carries the source domain in its query
NoUrl == << >>
UrlInputs ==
    { NoUrl,
      <<"https://", "the-steppe.com", "/a">>,
      <<"https://", "example.org", "/a">>,
      <<"https://", "example.org", "/?ref=", "the-steppe.com">> }

\* String.prototype.includes at token granularity
Includes(url, s) == \E i \in DOMAIN url : url[i] = s

VARIABLES
    jobs,      \* the Job collection, in insertion order; _id = index
    reqs,      \* the POST handlers in flight: position and request body
    runs,      \* the processVideoGeneration invocations, in start order
    raced,     \* per job: was its last reset made while a run was in flight
    resp,      \* the response last sent by a POST handler
    view,      \* the last response of GET /status/:jobId or GET /jobs
    call       \* the application of a service function under examination

vars == <<jobs, reqs, runs, raced, resp, view, call>>

Reqs == 1 .. MaxReqs
JobIds == DOMAIN jobs

\* ------------------------------------------------------------- Job schema
NewJobStatusMutant(url, t) ==
    [url |-> url, status |-> "processing", videoUrl |-> None, error |-> None,
     title |-> None, content |-> None, audioPath |-> None,
     audioDuration |-> None, videoPath |-> None, videoDuration |-> None,
     videoSize |-> None, videoResolution |-> None, hasSubtitles |-> FALSE,
     createdAt |-> t]

\* new Job({url, status: 'pending'}) with the schema defaults
NewJob(url, t) ==
    [url |-> url, status |-> "pending", videoUrl |-> None, error |-> None,
     title |-> None, content |-> None, audioPath |-> None,
     audioDuration |-> None, videoPath |-> None, videoDuration |-> None,
     videoSize |-> None, videoResolution |-> None, hasSubtitles |-> FALSE,
     createdAt |-> t]

\* $set of the given fields on one document
ApplyUpdate(job, upd) ==
    [f \in DOMAIN job |-> IF f \in DOMAIN upd THEN upd[f] ELSE job[f]]

\* an update that is not keyed: it is applied to every document
findByIdAndUpdateMutant(js, id, upd) == [k \in DOMAIN js |-> ApplyUpdate(js[k], upd)]

\* Job.findByIdAndUpdate: a single-document update keyed by _id
findByIdAndUpdate(js, id, upd) ==
    IF id \in DOMAIN js THEN [js EXCEPT ![id] = ApplyUpdate(@, upd)] ELSE js

\* Job.findOne({url}): the _id of the document with that url, 0 when none
findOne(js, url) ==
    IF \E i \in DOMAIN js : js[i].url = url
    THEN CHOOSE i \in DOMAIN js :
            js[i].url = url /\ \A k \in DOMAIN js : js[k].url = url => i <= k
    ELSE 0

UniqueIndexMutant(js, url) == TRUE

\* the unique index on url: may a document with this url be inserted
UniqueIndexAllows(js, url) == \A i \in DOMAIN js : js[i].url # url

\* ---------------------------------------------------------------- requests
\* the response last sent by a POST handler, with the request it answers
NoResp ==
    [op |-> "", url |-> NoUrl, force |-> FALSE,
     code |-> 0, jobId |-> 0, status |-> "", message |-> ""]
Resp(c, id, st, msg) == [code |-> c, jobId |-> id, status |-> st, message |-> msg]
Send(req, body) ==
    [op |-> req.op, url |-> req.url, force |-> req.force, code |-> body.code,
     jobId |-> body.jobId, status |-> body.status, message |-> body.message]

\* no response of a read endpoint is being written
NoView == [op |-> "none"]

ExistingJobResponseMutant(id, job) == Resp(200, id, "pending", "Job already exists")

\* the response for a url that already has a Job
ExistingJobResponse(id, job) == Resp(200, id, job.status, "Job already exists")

IdleReq == [op |-> "", pc |-> "idle", url |-> NoUrl, force |-> FALSE]
\* a handler that has sent its response holds nothing any more
DoneReq == [op |-> "", pc |-> "done", url |-> NoUrl, force |-> FALSE]

\* no response is being written: a handler computes and writes its response
\* in one turn of the event loop, and no other callback runs in that turn
Quiet == resp = NoResp /\ view = NoView

\* request r arrives: the slots are taken in arrival order
Arrives(r) ==
    /\ Quiet
    /\ reqs[r].pc = "idle"
    /\ \A q \in Reqs : q < r => reqs[q].pc # "idle"

\* a started invocation of processVideoGeneration(jobId)
NewRun(id) == [job |-> id, pc |-> "markProcessing", err |-> ""]

\* a run is in flight until it ends or the process that holds it is gone
RunActive(r) == runs[r].pc \notin {"finished", "lost"}
ActiveRunsOf(id) == {r \in DOMAIN runs : runs[r].job = id /\ RunActive(r)}

\* no service function is examined on its own
NoCall == [fn |-> "none"]

\* the server after its bootstrap
Boot ==
    /\ jobs = << >>
    /\ reqs = [r \in Reqs |-> IdleReq]
    /\ runs = << >>
    /\ raced = << >>
    /\ resp = NoResp
    /\ view = NoView

Init == Boot /\ call = NoCall


\* ------------------------------------------------- forced regeneration
ResetFieldsMutant == [status |-> "pending"]

\* the fields a forced regeneration clears on the existing Job
ResetFields ==
    [status |-> "pending", error |-> None, videoUrl |-> None,
     videoPath |-> None, videoDuration |-> None, videoSize |-> None,
     videoResolution |-> None, hasSubtitles |-> FALSE]

\* reset the Job in place and start a fresh run for it; never waits for,
\* nor cancels, a run of that Job that is still in flight
ForceRegenerate(id) ==
    /\ jobs' = findByIdAndUpdate(jobs, id, ResetFields)
    /\ raced' = [raced EXCEPT ![id] = (ActiveRunsOf(id) # {})]
    /\ runs' = Append(runs, NewRun(id))

\* -------------------------------------------- ArticleController.generateVideo
\* handler r sends its response and ends
Respond(r, req, body) ==
    /\ reqs' = [reqs EXCEPT ![r] = DoneReq]
    /\ resp' = Send(req, body)

\* req.body is read and validated; a valid url issues Job.findOne({url})
generateVideo_validate(r, url, force) ==
    /\ Arrives(r)
    /\ LET req == [op |-> "generate", pc |-> "findOne", url |-> url, force |-> force] IN
       IF url = NoUrl
       THEN Respond(r, req, Resp(400, 0, "", "URL is required"))
       ELSE IF ~Includes(url, SteppeDomain)
       THEN Respond(r, req, Resp(400, 0, "", "Invalid URL"))
       ELSE reqs' = [reqs EXCEPT ![r] = req] /\ UNCHANGED resp
    /\ UNCHANGED <<jobs, runs, raced, view, call>>

\* a submission of a url that has a Job runs the Job again
generateVideo_findOneMutant(r) ==
    /\ Quiet
    /\ reqs[r].pc = "findOne"
    /\ IF findOne(jobs, reqs[r].url) # 0
       THEN reqs' = [reqs EXCEPT ![r].pc = "reset"]
       ELSE reqs' = [reqs EXCEPT ![r].pc = "save"]
    /\ UNCHANGED <<jobs, runs, raced, resp, view, call>>

\* Job.findOne resolves: an existing Job is answered (or, with force, reset)
generateVideo_findOne(r) ==
    /\ Quiet
    /\ reqs[r].pc = "findOne"
    /\ LET existingJob == findOne(jobs, reqs[r].url) IN
       IF existingJob # 0 /\ ~reqs[r].force
       THEN Respond(r, reqs[r], ExistingJobResponse(existingJob, jobs[existingJob]))
       ELSE IF existingJob # 0
       THEN reqs' = [reqs EXCEPT ![r].pc = "reset"] /\ UNCHANGED resp
       ELSE reqs' = [reqs EXCEPT ![r].pc = "save"] /\ UNCHANGED resp
    /\ UNCHANGED <<jobs, runs, raced, view, call>>

\* the run is started whether or not the save was accepted
generateVideo_saveMutant(r) ==
    /\ Quiet
    /\ reqs[r].pc = "save"
    /\ IF UniqueIndexAllows(jobs, reqs[r].url)
       THEN /\ jobs' = Append(jobs, NewJob(reqs[r].url, Len(jobs) + 1))
            /\ raced' = Append(raced, FALSE)
            /\ runs' = Append(runs, NewRun(Len(jobs) + 1))
            /\ Respond(r, reqs[r], Resp(201, Len(jobs) + 1, "pending",
                                        "Video generation started"))
       ELSE /\ runs' = Append(runs, NewRun(findOne(jobs, reqs[r].url)))
            /\ Respond(r, reqs[r], Resp(201, findOne(jobs, reqs[r].url), "pending",
                                        "Video generation started"))
            /\ UNCHANGED <<jobs, raced>>
    /\ UNCHANGED <<view, call>>

\* job.save() resolves or rejects on the unique index; on success the run is
\* started without being awaited and the 201 response is sent
generateVideo_save(r) ==
    /\ Quiet
    /\ reqs[r].pc = "save"
    /\ IF UniqueIndexAllows(jobs, reqs[r].url)
       THEN /\ jobs' = Append(jobs, NewJob(reqs[r].url, Len(jobs) + 1))
            /\ raced' = Append(raced, FALSE)
            /\ runs' = Append(runs, NewRun(Len(jobs) + 1))
            /\ Respond(r, reqs[r], Resp(201, Len(jobs) + 1, "pending",
                                        "Video generation started"))
       ELSE /\ Respond(r, reqs[r], Resp(500, 0, "", "E11000 duplicate key error"))
            /\ UNCHANGED <<jobs, runs, raced>>
    /\ UNCHANGED <<view, call>>

\* force = true on an existing Job: the Job is reset and re-run
generateVideo_force(r) ==
    /\ Quiet
    /\ reqs[r].pc = "reset"
    /\ LET id == findOne(jobs, reqs[r].url) IN
         /\ ForceRegenerate(id)
         /\ Respond(r, reqs[r], Resp(200, id, "pending", "Regeneration started"))
    /\ UNCHANGED <<view, call>>

\* POST /regenerate/:jobId
regenerateVideo(r, jobId) ==
    /\ Arrives(r)
    /\ LET req == [op |-> "regenerate", pc |-> "reset", url |-> NoUrl, force |-> FALSE] IN
       IF jobId \in JobIds
       THEN /\ ForceRegenerate(jobId)
            /\ Respond(r, req, Resp(200, jobId, "pending", "Regeneration started"))
       ELSE /\ Respond(r, req, Resp(404, 0, "", "Job not found"))
            /\ UNCHANGED <<jobs, runs, raced>>
    /\ UNCHANGED <<view, call>>


\* -------------------------------- ArticleController.processVideoGeneration
\* what the collaborators hand back when they succeed
ArticleTitle == "title"
ArticleText == "text"
VoiceAudioPath == "audio.mp3"
OutputVideoPath == "video.mp4"
OutputDuration == 30
OutputSize == 1
OutputResolution == "1080x1920"

\* the message of a rejected store operation
StoreError == "store unavailable"

\* the $set documents of the run, in the order the code issues them
ProcessingUpdateMutant == [status |-> "done"]

ProcessingUpdate == [status |-> "processing"]
ContentUpdateMutant == [title |-> Some(ArticleTitle)]
ContentUpdate == [title |-> Some(ArticleTitle), content |-> Some(ArticleText)]

AudioUpdateMutant == [audioDuration |-> None]

\* VoiceResult.duration is undefined (getAudioDuration returns undefined,
\* the merged result carries no duration), and an undefined value is not set
AudioUpdate == [audioPath |-> Some(VoiceAudioPath)]

VideoUpdate ==
    [videoPath |-> Some(OutputVideoPath), videoDuration |-> Some(OutputDuration),
     videoSize |-> Some(OutputSize), videoResolution |-> Some(OutputResolution),
     hasSubtitles |-> TRUE]
DoneUpdateMutant == [status |-> "done"]
DoneUpdate == [status |-> "done", videoUrl |-> Some(<<"file://", OutputVideoPath>>)]
ErrorUpdate(msg) == [status |-> "error", error |-> Some(msg)]

Goto(r, pc) == runs' = [runs EXCEPT ![r].pc = pc]
Throw(r, msg) == runs' = [runs EXCEPT ![r].pc = "catch", ![r].err = msg]

\* a run that has been superseded by a later run of its Job does not write
PersistMutant(r, at, upd, next) ==
    /\ Quiet
    /\ runs[r].pc = at
    /\ \/ /\ jobs' = IF \E k \in DOMAIN runs : k > r /\ runs[k].job = runs[r].job
                      THEN jobs
                      ELSE findByIdAndUpdate(jobs, runs[r].job, upd)
          /\ Goto(r, next)
       \/ /\ Throw(r, StoreError)
          /\ UNCHANGED jobs
    /\ UNCHANGED <<reqs, raced, resp, view, call>>

\* one awaited Job.findByIdAndUpdate of the try block: applied, or rejected
Persist(r, at, upd, next) ==
    /\ Quiet
    /\ runs[r].pc = at
    /\ \/ /\ jobs' = findByIdAndUpdate(jobs, runs[r].job, upd)
          /\ Goto(r, next)
       \/ /\ Throw(r, StoreError)
          /\ UNCHANGED jobs
    /\ UNCHANGED <<reqs, raced, resp, view, call>>

\* a failed call is made again
StageMutant(r, at, next, msg) ==
    /\ Quiet
    /\ runs[r].pc = at
    /\ \/ Goto(r, next)
       \/ Throw(r, msg)
       \/ runs' = [runs EXCEPT ![r].pc = "scrape"]
    /\ UNCHANGED <<jobs, reqs, raced, resp, view, call>>

\* one awaited collaborator call: it returns, or fails with msg
Stage(r, at, next, msg) ==
    /\ Quiet
    /\ runs[r].pc = at
    /\ \/ Goto(r, next)
       \/ Throw(r, msg)
    /\ UNCHANGED <<jobs, reqs, raced, resp, view, call>>

run_markProcessing(r) == Persist(r, "markProcessing", ProcessingUpdate, "findById")

\* Job.findById: rejected, no such Job, or the Job
run_findById(r) ==
    /\ Quiet
    /\ runs[r].pc = "findById"
    /\ \/ IF runs[r].job \in JobIds THEN Goto(r, "scrape") ELSE Throw(r, "Job not found")
       \/ Throw(r, StoreError)
    /\ UNCHANGED <<jobs, reqs, raced, resp, view, call>>

run_scrapeMutant(r) == Stage(r, "scrape", "saveContent", "Request failed with status code 404")

\* scrapeSteppeArticle never throws: an article, or null
run_scrape(r) == Stage(r, "scrape", "saveContent", "Failed to scrape article content")
run_saveContent(r) == Persist(r, "saveContent", ContentUpdate, "processArticle")
run_processArticle(r) == Stage(r, "processArticle", "generateVideoMetadata", "AI processing failed")
run_generateVideoMetadata(r) ==
    Stage(r, "generateVideoMetadata", "synthesizeLongText", "Metadata generation failed")
\* synthesizeLongText never throws: a VoiceResult, or null
run_synthesizeLongText(r) ==
    Stage(r, "synthesizeLongText", "saveAudio", "Failed to synthesize speech")
run_saveAudio(r) == Persist(r, "saveAudio", AudioUpdate, "getMediaForArticle")

\* getMediaForArticle throws or returns; getBestVideoForTikTok picks a video
\* or null, and null is thrown as 'No suitable background video found'
run_getMediaForArticle(r) ==
    /\ Quiet
    /\ runs[r].pc = "getMediaForArticle"
    /\ \/ Goto(r, "assembleVideo")
       \/ Throw(r, "No suitable background video found")
       \/ Throw(r, "Media collection failed")
    /\ UNCHANGED <<jobs, reqs, raced, resp, view, call>>

run_assembleVideo(r) == Stage(r, "assembleVideo", "saveVideo", "Video assembly failed")
run_saveVideo(r) == Persist(r, "saveVideo", VideoUpdate, "markDone")
run_markDone(r) == Persist(r, "markDone", DoneUpdate, "finished")

\* the catch block: the error update is applied, or itself rejected (then the
\* rejection is only logged by the caller's .catch)
run_catch(r) ==
    /\ Quiet
    /\ runs[r].pc = "catch"
    /\ \/ jobs' = findByIdAndUpdate(jobs, runs[r].job, ErrorUpdate(runs[r].err))
       \/ UNCHANGED jobs
    /\ runs' = [runs EXCEPT ![r].pc = "finished", ![r].err = ""]
    /\ UNCHANGED <<reqs, raced, resp, view, call>>

\* ------------------------------------------ ArticleController.getJobStatus
JobStatusViewMutant(id, job) ==
    [jobId |-> id, status |-> "pending", url |-> job.url, title |-> job.title,
     videoUrl |-> job.videoUrl, error |-> job.error, createdAt |-> job.createdAt]

\* the body of the 200 response
JobStatusView(id, job) ==
    [jobId |-> id, status |-> job.status, url |-> job.url, title |-> job.title,
     videoUrl |-> job.videoUrl, error |-> job.error, createdAt |-> job.createdAt]

\* Job.findById resolves and the response is sent
getJobStatus(jobId) ==
    /\ Quiet
    /\ view' = IF jobId \in JobIds
               THEN [op |-> "status", code |-> 200, jobId |-> jobId,
                     body |-> JobStatusView(jobId, jobs[jobId])]
               ELSE [op |-> "status", code |-> 404, jobId |-> jobId,
                     body |-> "Job not found"]
    /\ UNCHANGED <<jobs, reqs, runs, raced, resp, call>>

\* -------------------------------------------- ArticleController.getAllJobs
NoFilter == ""
DefaultLimit == 20

JobListItem(id, job) ==
    [jobId |-> id, status |-> job.status, url |-> job.url, title |-> job.title,
     videoUrl |-> job.videoUrl, createdAt |-> job.createdAt,
     hasError |-> (job.error # None)]

\* Job.find(filter): the ids of the matching documents; an empty status
\* parameter is falsy and sets no filter
Find(js, status) ==
    {i \in DOMAIN js : status = NoFilter \/ js[i].status = status}

\* .sort({createdAt: -1}) over a set of ids
RECURSIVE SortNewestFirst(_, _)
SortNewestFirst(js, ids) ==
    IF ids = {} THEN << >>
    ELSE LET newest == CHOOSE i \in ids :
                 \A k \in ids : \/ js[i].createdAt > js[k].createdAt
                                \/ js[i].createdAt = js[k].createdAt /\ i <= k
         IN <<newest>> \o SortNewestFirst(js, ids \ {newest})

\* .limit(n) of the query: a limit of 0 sets no limit
Limit(seq, n) ==
    IF n = 0 \/ n >= Len(seq) THEN seq ELSE SubSeq(seq, 1, n)

\* Job.find(filter).sort({createdAt: -1}).limit(parseInt(limit)) resolves and
\* the response is sent
getAllJobs(status, limit) ==
    /\ Quiet
    /\ LET found == Limit(SortNewestFirst(jobs, Find(jobs, status)), limit) IN
         view' = [op |-> "list", code |-> 200, status |-> status, limit |-> limit,
                  jobs |-> [k \in DOMAIN found |-> JobListItem(found[k], jobs[found[k]])],
                  total |-> Len(found)]
    /\ UNCHANGED <<jobs, reqs, runs, raced, resp, call>>

\* ------------------------------------------------------------------- Next
\* res.json has written the response to the socket
sendResponse ==
    /\ ~Quiet
    /\ resp' = NoResp
    /\ view' = NoView
    /\ UNCHANGED <<jobs, reqs, runs, raced, call>>

Next ==
    \/ \E r \in Reqs, url \in UrlInputs, force \in BOOLEAN :
          generateVideo_validate(r, url, force)
    \/ \E r \in Reqs : generateVideo_findOne(r)
    \/ \E r \in Reqs : generateVideo_save(r)
    \/ \E r \in Reqs : generateVideo_force(r)
    \/ \E r \in Reqs, jobId \in 1 .. MaxReqs : regenerateVideo(r, jobId)
    \/ \E r \in DOMAIN runs : run_markProcessing(r)
    \/ \E r \in DOMAIN runs : run_findById(r)
    \/ \E r \in DOMAIN runs : run_scrape(r)
    \/ \E r \in DOMAIN runs : run_saveContent(r)
    \/ \E r \in DOMAIN runs : run_processArticle(r)
    \/ \E r \in DOMAIN runs : run_generateVideoMetadata(r)
    \/ \E r \in DOMAIN runs : run_synthesizeLongText(r)
    \/ \E r \in DOMAIN runs : run_saveAudio(r)
    \/ \E r \in DOMAIN runs : run_getMediaForArticle(r)
    \/ \E r \in DOMAIN runs : run_assembleVideo(r)
    \/ \E r \in DOMAIN runs : run_saveVideo(r)
    \/ \E r \in DOMAIN runs : run_markDone(r)
    \/ \E r \in DOMAIN runs : run_catch(r)
    \/ sendResponse

Spec == Init /\ [][Next]_vars

\* the submissions and runs together with the two read endpoints
NextApi ==
    \/ Next
    \/ \E jobId \in 1 .. MaxReqs + 1 : getJobStatus(jobId)
    \/ \E status \in Statuses \cup {NoFilter}, limit \in (0 .. MaxLimit) \cup {DefaultLimit} :
          getAllJobs(status, limit)

SpecApi == Init /\ [][NextApi]_vars


\* ================================================================== claims
\* the host of a url: the token after the scheme
Host(url) == IF Len(url) >= 2 THEN url[2] ELSE ""

HasJobFor(url) == \E i \in JobIds : jobs[i].url = url
PassesValidation(url) == url # NoUrl /\ Includes(url, SteppeDomain)
\* handler r of POST /generate is past validation and has not yet answered
Submitted(r) == reqs[r].op = "generate" /\ reqs[r].pc \notin {"idle", "done"}

\* C1: when the save of a validated submission is attempted and no Job exists
\* for its url, that step adds exactly one Job, in status pending, leaves the
\* other Jobs alone, and answers 201 / pending / the new id in the same step,
\* while the run it started has not yet taken its first step.
C1_SubmitCreatesOnePendingJob ==
    [][\A r \in Reqs :
         (reqs[r].pc = "save" /\ reqs'[r].pc # "save" /\ ~HasJobFor(reqs[r].url))
         => /\ Len(jobs') = Len(jobs) + 1
            /\ \A i \in JobIds : jobs'[i] = jobs[i]
            /\ jobs'[Len(jobs')].url = reqs[r].url
            /\ jobs'[Len(jobs')].status = "pending"
            /\ resp'.code = 201
            /\ resp'.status = "pending"
            /\ resp'.jobId = Len(jobs')
            /\ Len(runs') = Len(runs) + 1
            /\ runs'[Len(runs')].job = Len(jobs')
            /\ runs'[Len(runs')].pc = "markProcessing"
      ]_vars

\* the 201 response for a second new Job is being sent: the Job is pending and
\* its run has been started but has not taken a step
C1_Witness ==
    /\ resp.code = 201
    /\ Len(jobs) = 2
    /\ jobs[resp.jobId].status = "pending"
    /\ \E k \in ActiveRunsOf(resp.jobId) : runs[k].pc = "markProcessing"

\* C2: a submission without force whose url already has a Job is answered,
\* when findOne resolves, with that Job's id and its current status; the step
\* changes no Job, adds no Job and starts no run.
C2_ExistingJobIsReturned ==
    [][\A r \in Reqs :
         (reqs[r].pc = "findOne" /\ reqs'[r].pc # "findOne"
            /\ ~reqs[r].force /\ HasJobFor(reqs[r].url))
         => /\ reqs'[r].pc = "done"
            /\ resp'.code = 200
            /\ resp'.jobId \in JobIds
            /\ jobs[resp'.jobId].url = reqs[r].url
            /\ resp'.status = jobs[resp'.jobId].status
            /\ jobs' = jobs
            /\ runs' = runs
      ]_vars

\* a second submission of a url was answered with the existing Job
C2_Witness ==
    /\ resp.message = "Job already exists"
    /\ resp.status = "processing"

\* C3: the Job store never holds two Jobs with the same url.
C3_OneJobPerUrl ==
    \A i \in JobIds, k \in JobIds : jobs[i].url = jobs[k].url => i = k

\* two submissions of one new url both passed findOne; one of them was saved
\* and the other one's save was rejected by the unique index
C3_Witness ==
    /\ resp.code = 500
    /\ resp.message = "E11000 duplicate key error"
    /\ HasJobFor(resp.url)
    /\ Len(jobs) = 1

\* C4: a submission whose url passed validation is never answered with an
\* error: its response, once sent, is a success carrying a job id.
C4_ValidSubmissionSucceeds ==
    (resp.op = "generate" /\ PassesValidation(resp.url))
    => resp.code \in {200, 201} /\ resp.jobId \in JobIds


\* the step resets Job id in place and starts a fresh run for it
IsReset(id) ==
    /\ Len(jobs') = Len(jobs)
    /\ \A i \in JobIds : i # id => jobs'[i] = jobs[i]
    /\ jobs'[id].url = jobs[id].url
    /\ jobs'[id].status = "pending"
    /\ jobs'[id].error = None
    /\ jobs'[id].videoUrl = None
    /\ jobs'[id].videoPath = None
    /\ jobs'[id].videoDuration = None
    /\ jobs'[id].videoSize = None
    /\ jobs'[id].videoResolution = None
    /\ jobs'[id].hasSubtitles = FALSE
    /\ Len(runs') = Len(runs) + 1
    /\ \A k \in DOMAIN runs : runs'[k] = runs[k]
    /\ runs'[Len(runs')].job = id
    /\ runs'[Len(runs')].pc = "markProcessing"

C6_ForeignUrlRejected ==
    /\ \A r \in Reqs : Submitted(r) => Host(reqs[r].url) = SteppeDomain
    /\ (resp.op = "generate" /\ (resp.url = NoUrl \/ Host(resp.url) # SteppeDomain))
       => resp.code = 400
    /\ \A i \in JobIds : Host(jobs[i].url) = SteppeDomain

Matching(status) == {i \in JobIds : status = NoFilter \/ jobs[i].status = status}
Smaller(a, b) == IF a <= b THEN a ELSE b

\* C8: GET /jobs answers with Jobs ordered newest first, only Jobs of the
\* filtered status when a filter is given, and at most limit of them: the
\* first limit Jobs of that ordering.
C8_ListIsNewestFirstFilteredCapped ==
    view.op = "list" =>
       /\ \A i \in DOMAIN view.jobs, k \in DOMAIN view.jobs :
             i < k => view.jobs[i].createdAt >= view.jobs[k].createdAt
       /\ \A i \in DOMAIN view.jobs : view.jobs[i].jobId \in Matching(view.status)
       /\ \A i \in DOMAIN view.jobs, k \in DOMAIN view.jobs :
             view.jobs[i].jobId = view.jobs[k].jobId => i = k
       /\ Len(view.jobs) <= view.limit
       /\ Len(view.jobs) = Smaller(view.limit, Cardinality(Matching(view.status)))
       /\ \A m \in Matching(view.status) :
             (\A i \in DOMAIN view.jobs : view.jobs[i].jobId # m)
             => \A i \in DOMAIN view.jobs : view.jobs[i].createdAt >= jobs[m].createdAt

\* the status transitions of a run, as the state machine states them
RunTransitions ==
    { <<"pending", "processing">>, <<"processing", "done">>, <<"processing", "error">> }

StatusChanges(j) == jobs'[j].status # jobs[j].status
StatusStep(j) == <<jobs[j].status, jobs'[j].status>>

\* the step is a forced regeneration of Job j
IsForcedRegeneration(j) ==
    /\ jobs'[j].status = "pending"
    /\ Len(runs') = Len(runs) + 1
    /\ runs'[Len(runs')].job = j

\* C9 as stated: a Job's status only moves pending -> processing,
\* processing -> done or processing -> error, except that a forced
\* regeneration puts it back to pending.
C9_OnlyStateMachineTransitions ==
    [][\A j \in JobIds :
         StatusChanges(j) => StatusStep(j) \in RunTransitions \/ IsForcedRegeneration(j)
      ]_vars

\* C9 amended: for a Job whose last forced regeneration found no run of it in
\* flight, the status only moves pending -> processing, processing -> done,
\* processing -> error, or pending -> error (the run's first update was
\* rejected but its error update applied), or back to pending by a forced
\* regeneration.
C9_TransitionsUnlessRaced ==
    [][\A j \in JobIds :
         StatusChanges(j) =>
            \/ StatusStep(j) \in RunTransitions \cup { <<"pending", "error">> }
            \/ IsForcedRegeneration(j)
            \/ raced[j]
      ]_vars

\* a Job was regenerated after its run had ended, and its second run is done
C9_Witness ==
    \E j \in JobIds :
       /\ jobs[j].status = "done"
       /\ ~raced[j]
       /\ Cardinality({r \in DOMAIN runs : runs[r].job = j}) = 2

ContentSet(job) == job.title # None /\ job.content # None
AudioSet(job) == job.audioPath # None
VideoSet(job) == job.videoPath # None

StagePrefix(job) ==
    /\ VideoSet(job) => AudioSet(job)
    /\ AudioSet(job) => ContentSet(job)
    /\ job.status = "done" => VideoSet(job)

crash ==
    /\ \/ \E r \in DOMAIN runs : RunActive(r)
       \/ \E r \in Reqs : reqs[r].pc \notin {"idle", "done"}
    /\ runs' = [r \in DOMAIN runs |->
                  IF RunActive(r) THEN [runs[r] EXCEPT !.pc = "lost", !.err = ""]
                  ELSE runs[r]]
    /\ reqs' = [r \in Reqs |->
                  IF reqs[r].pc \notin {"idle", "done"} THEN DoneReq ELSE reqs[r]]
    /\ resp' = NoResp
    /\ view' = NoView
    /\ UNCHANGED <<jobs, raced, call>>

NextCrash ==
    \/ Next
    \/ crash

SpecCrash == Init /\ [][NextCrash]_vars

\* ------------------------------------------------------------ scheduling
\* one step of run r: the event loop resumes the run whenever the call it
\* awaits has returned or thrown
RunStep(r) ==
    /\ r \in DOMAIN runs
    /\ \/ run_markProcessing(r) \/ run_findById(r) \/ run_scrape(r)
       \/ run_saveContent(r) \/ run_processArticle(r)
       \/ run_generateVideoMetadata(r) \/ run_synthesizeLongText(r)
       \/ run_saveAudio(r) \/ run_getMediaForArticle(r) \/ run_assembleVideo(r)
       \/ run_saveVideo(r) \/ run_markDone(r) \/ run_catch(r)

\* one step of a handler of POST /generate that is past validation
HandlerStep(r) ==
    generateVideo_findOne(r) \/ generateVideo_save(r) \/ generateVideo_force(r)

\* every awaited call returns or throws, and the process keeps running
Fairness ==
    /\ \A r \in Reqs : WF_vars(RunStep(r))
    /\ \A r \in Reqs : WF_vars(HandlerStep(r))
    /\ WF_vars(sendResponse)

SpecLive == Init /\ [][Next]_vars /\ Fairness

\* C11: every run that has been started eventually has its Job in done or
\* error.
C11_EveryRunEndsInDoneOrError ==
    \A r \in Reqs :
       (r \in DOMAIN runs) ~>
          (r \in DOMAIN runs /\ jobs[runs[r].job].status \in {"done", "error"})

DoneComplete(job) ==
    /\ job.status = "done"
       => /\ job.videoUrl # None
          /\ job.videoPath # None
          /\ job.title # None
          /\ job.hasSubtitles
    /\ job.error # None <=> job.status = "error"

\* C12 as stated: in every state a done Job has a video reference, a video
\* location, a title and subtitles, and a Job has an error message exactly
\* when its status is error.
C12_DoneIsComplete == \A j \in JobIds : DoneComplete(jobs[j])

\* C12 amended: the same, for every Job whose last forced regeneration found
\* no run of it in flight.
C12_DoneIsCompleteUnlessRaced == \A j \in JobIds : ~raced[j] => DoneComplete(jobs[j])

\* one Job is done and another one is in error, neither of them raced
C12_Witness ==
    \E j \in JobIds, k \in JobIds :
       /\ jobs[j].status = "done" /\ ~raced[j]
       /\ jobs[k].status = "error" /\ ~raced[k]

ScrapeFailure == "Failed to scrape article content"

NothingPopulated(job) ==
    /\ job.title = None /\ job.content = None
    /\ job.audioPath = None /\ job.audioDuration = None
    /\ job.videoPath = None /\ job.videoDuration = None /\ job.videoSize = None
    /\ job.videoResolution = None /\ job.videoUrl = None /\ ~job.hasSubtitles

\* run r is the only run ever started for its Job
OnlyRun(r) == \A k \in DOMAIN runs : runs[k].job = runs[r].job => k = r

\* the scraper returned null to run r
ScrapeFailed(r) == runs[r].pc = "catch" /\ runs[r].err = ScrapeFailure

C14_FailureMovesJobToError ==
    [][\A r \in DOMAIN runs :
         (runs[r].pc = "catch" /\ runs'[r].pc = "finished")
         => /\ jobs'[runs[r].job].status = "error"
            /\ jobs'[runs[r].job].error = Some(runs[r].err)
      ]_vars

\* the awaited calls of the try block, in program order; a run's pc names the
\* call it is awaiting
RunOrder ==
    <<"markProcessing", "findById", "scrape", "saveContent", "processArticle",
      "generateVideoMetadata", "synthesizeLongText", "saveAudio",
      "getMediaForArticle", "assembleVideo", "saveVideo", "markDone", "finished">>

\* the collaborator stages among them
StageCalls ==
    <<"scrape", "processArticle", "generateVideoMetadata", "synthesizeLongText",
      "getMediaForArticle", "assembleVideo">>

PosIn(seq, pc) == CHOOSE i \in DOMAIN seq : seq[i] = pc
IsIn(seq, pc) == \E i \in DOMAIN seq : seq[i] = pc

\* the stages a run awaiting pc has invoked so far: those up to pc
Invoked(pc) == {s \in DOMAIN StageCalls : PosIn(RunOrder, StageCalls[s]) <= PosIn(RunOrder, pc)}

\* C15: a run awaits one call at a time; each step of a run either passes from
\* one call to the next one in program order after it returned, or leaves the
\* try block for the catch block, or ends the run from the catch block; so the
\* stages a run has invoked are a prefix of scrape, content processing,
\* metadata, narration, media search, assembly, each invoked once.
C15_StagesInOrderOnce ==
    [][/\ \A r \in DOMAIN runs :
            runs'[r] # runs[r]
            => /\ runs'[r].job = runs[r].job
               /\ \/ /\ IsIn(RunOrder, runs[r].pc) /\ runs[r].pc # "finished"
                     /\ runs'[r].pc = RunOrder[PosIn(RunOrder, runs[r].pc) + 1]
                     /\ Invoked(runs'[r].pc) \in
                           {Invoked(runs[r].pc),
                            Invoked(runs[r].pc) \cup {Cardinality(Invoked(runs[r].pc)) + 1}}
                  \/ /\ IsIn(RunOrder, runs[r].pc) /\ runs[r].pc # "finished"
                     /\ runs'[r].pc = "catch"
                  \/ /\ runs[r].pc = "catch"
                     /\ runs'[r].pc = "finished"
       /\ \A r \in DOMAIN runs' \ DOMAIN runs : runs'[r].pc = RunOrder[1]
      ]_vars

\* a run has invoked every stage and awaits the assembly, while another run
\* has left the try block
C15_Witness ==
    \E r \in DOMAIN runs, k \in DOMAIN runs :
       /\ runs[r].pc = "assembleVideo"
       /\ runs[k].pc = "catch"

\* Job j has lost a run to a crash and has no run in flight
Stranded(j) ==
    /\ ActiveRunsOf(j) = {}
    /\ \E r \in DOMAIN runs : runs[r].job = j /\ runs[r].pc = "lost"

\* the step is the reset made by a forced submission or by POST /regenerate
ForcedStep ==
    \E r \in Reqs :
       \/ reqs[r].pc = "reset" /\ reqs[r].force /\ reqs'[r].pc = "done"
       \/ reqs[r].pc = "idle" /\ reqs'[r].pc = "done"
             /\ resp'.op = "regenerate" /\ resp'.code = 200

\* C16: a Job that is in processing after a crash took its run is not changed
\* by any step, and no run is started for it, except by a forced regeneration.
C16_CrashedJobStaysProcessing ==
    [][\A j \in JobIds :
         (jobs[j].status = "processing" /\ Stranded(j))
         => \/ jobs'[j] = jobs[j] /\ ActiveRunsOf(j)' = {}
            \/ ForcedStep
      ]_vars

\* after a crash a Job is in processing with no run, while the Job of a later
\* submission has been processed to the end
C16_Witness ==
    \E j \in JobIds, k \in JobIds :
       /\ jobs[j].status = "processing" /\ Stranded(j)
       /\ jobs[k].status = "done"

\* C17: a step starts at most one run, and the run it starts is either the
\* first run of the Job the step has just stored or the run of a forced
\* regeneration; so without forced regeneration a Job never has two runs.
C17_OneRunPerJobUnlessForced ==
    [][Len(runs') # Len(runs)
         => /\ Len(runs') = Len(runs) + 1
            /\ \A k \in DOMAIN runs : runs'[k].job = runs[k].job
            /\ \/ /\ Len(jobs') = Len(jobs) + 1
                  /\ runs'[Len(runs')].job = Len(jobs')
                  /\ \A k \in DOMAIN runs : runs[k].job # Len(jobs')
               \/ ForcedStep
      ]_vars

\* two submissions of one new url raced: the one whose save was rejected has
\* been answered and the Job has its single run, which has ended
C17_Witness ==
    /\ resp.code = 500
    /\ Len(jobs) = 1
    /\ Len(runs) = 1
    /\ runs[1].pc = "finished"
    /\ \A r \in Reqs : reqs[r].pc = "done"

\* the update a run persists at each of its store writes of the try block
UpdateAt(pc) ==
    CASE pc = "markProcessing" -> ProcessingUpdate
      [] pc = "saveContent" -> ContentUpdate
      [] pc = "saveAudio" -> AudioUpdate
      [] pc = "saveVideo" -> VideoUpdate
      [] pc = "markDone" -> DoneUpdate
WritePcs == {"markProcessing", "saveContent", "saveAudio", "saveVideo", "markDone"}

\* a later run has been started for the Job of run r
Superseded(r) == \E k \in DOMAIN runs : k > r /\ runs[k].job = runs[r].job

\* C18: a run whose Job has been reset and given a new run is neither stopped
\* nor fenced off: each write it completes afterwards is applied to the Job as
\* it would have been without the reset, its terminal status included.
C18_EarlierRunWritesStillLand ==
    [][\A r \in DOMAIN runs :
         Superseded(r) =>
            /\ (runs[r].pc \in WritePcs
                  /\ runs'[r].pc = RunOrder[PosIn(RunOrder, runs[r].pc) + 1])
               => jobs' = findByIdAndUpdate(jobs, runs[r].job, UpdateAt(runs[r].pc))
            /\ (runs[r].pc = "catch" /\ runs'[r].pc = "finished" /\ jobs' # jobs)
               => jobs' = findByIdAndUpdate(jobs, runs[r].job, ErrorUpdate(runs[r].err))
      ]_vars

\* the Job shows done, written by the earlier run, while the run started by
\* the reset is past its first update and still in progress
C18_Witness ==
    \E r \in DOMAIN runs, k \in DOMAIN runs :
       /\ r < k /\ runs[r].job = runs[k].job
       /\ runs[r].pc = "finished"
       /\ runs[k].pc = "scrape"
       /\ jobs[runs[k].job].status = "done"
       /\ raced[runs[k].job]

\* ===================================================== service functions
\* Each function below is examined on its own: call holds its argument, and
\* one step applies it and stores what it returns.

\* ------------------------------------ MediaService.getBestVideoForTikTok
\* relevanceScore in hundredths; duration in seconds, 0 when Pexels gave none
HdBonus == 30
MinDuration == 15
MaxDuration == 60
Durations == {0, 14, 15, 60, 61}
Relevances == {0, 25}
VideoAttrs == [duration : Durations, relevanceScore : Relevances, quality : {"hd", "sd"}]

\* the videos of a MediaSearchResult: removeDuplicates leaves distinct ids
Numbered(f) ==
    [i \in DOMAIN f |->
       [id |-> i, duration |-> f[i].duration,
        relevanceScore |-> f[i].relevanceScore, quality |-> f[i].quality]]
VideoLists == {Numbered(f) : f \in UNION {[1 .. n -> VideoAttrs] : n \in 0 .. MaxVideos}}

IsSuitable(video) ==
    video.duration # 0 /\ video.duration >= MinDuration /\ video.duration <= MaxDuration

Score(video) == video.relevanceScore + (IF video.quality = "hd" THEN HdBonus ELSE 0)

\* Array.prototype.sort with the comparator scoreB - scoreA: descending and
\* stable
RECURSIVE InsertByScore(_, _)
InsertByScore(v, sorted) ==
    IF sorted = << >> THEN <<v>>
    ELSE IF Score(Head(sorted)) >= Score(v)
         THEN <<Head(sorted)>> \o InsertByScore(v, Tail(sorted))
         ELSE <<v>> \o sorted

RECURSIVE SortByScore(_)
SortByScore(seq) ==
    IF seq = << >> THEN << >>
    ELSE InsertByScore(seq[Len(seq)], SortByScore(SubSeq(seq, 1, Len(seq) - 1)))

getBestVideoForTikTok(videos) ==
    LET suitableVideos == SelectSeq(videos, IsSuitable) IN
      IF Len(suitableVideos) = 0
      THEN IF Len(videos) > 0 THEN Some(videos[1]) ELSE None
      ELSE Some(SortByScore(suitableVideos)[1])

call_getBestVideoForTikTok ==
    /\ call.fn = "getBestVideoForTikTok"
    /\ ~call.done
    /\ call' = [call EXCEPT !.ret = getBestVideoForTikTok(call.arg), !.done = TRUE]
    /\ UNCHANGED <<jobs, reqs, runs, raced, resp, view>>

InitMedia ==
    /\ Boot
    /\ call \in [fn : {"getBestVideoForTikTok"}, arg : VideoLists, ret : {None}, done : {FALSE}]

NextMedia == call_getBestVideoForTikTok

SpecMedia == InitMedia /\ [][NextMedia]_vars

\* the first video of the list whose duration is in [15, 60]; the first video
\* when there is none; no video for the empty list
FirstSuitable(videos) ==
    IF \E i \in DOMAIN videos : IsSuitable(videos[i])
    THEN Some(videos[CHOOSE i \in DOMAIN videos :
                       /\ IsSuitable(videos[i])
                       /\ \A k \in 1 .. i - 1 : ~IsSuitable(videos[k])])
    ELSE IF Len(videos) > 0 THEN Some(videos[1]) ELSE None

\* C19: getBestVideoForTikTok returns the first video in list order whose
\* duration is within [15, 60], the first video of the list when none
\* qualifies, and no video only for the empty list.
C19_FirstSuitableInListOrder ==
    (call.fn = "getBestVideoForTikTok" /\ call.done) => call.ret = FirstSuitable(call.arg)

\* ----------------------------------------- VideoService.generateSubtitles
\* a script is a sequence of characters: a word character, a space, and a
\* character outside the class [\w\sА-Яа-яё.,!?-] such as an emoji
WordChar == "a"
Space == " "
Emoji == "*"
Scripts == UNION {[1 .. n -> {WordChar, Space, Emoji}] : n \in 0 .. MaxScriptLen}

\* script.replace(/[^\w\sА-Яа-яё.,!?-]/g, '')
IsKept(c) == c # Emoji
Clean(script) == SelectSeq(script, IsKept)

\* String.prototype.trim
RECURSIVE TrimStart(_)
TrimStart(s) == IF s # << >> /\ Head(s) = Space THEN TrimStart(Tail(s)) ELSE s
RECURSIVE TrimEnd(_)
TrimEnd(s) ==
    IF s # << >> /\ s[Len(s)] = Space THEN TrimEnd(SubSeq(s, 1, Len(s) - 1)) ELSE s
Trim(s) == TrimEnd(TrimStart(s))

\* String.prototype.split(' '): every single space separates, so two spaces
\* in a row enclose an empty word and '' gives ['']
RECURSIVE Split(_)
Split(s) ==
    IF \E i \in DOMAIN s : s[i] = Space
    THEN LET i == CHOOSE i \in DOMAIN s :
                     s[i] = Space /\ \A k \in 1 .. i - 1 : s[k] # Space
         IN <<SubSeq(s, 1, i - 1)>> \o Split(SubSeq(s, i + 1, Len(s)))
    ELSE <<s>>

\* Array.prototype.join(' ')
RECURSIVE Join(_)
Join(words) ==
    IF Len(words) = 0 THEN << >>
    ELSE IF Len(words) = 1 THEN words[1]
    ELSE words[1] \o <<Space>> \o Join(Tail(words))

ChunkSize == 3
ChunkDuration == 2
SubtitleCap == 60
SubtitleTail == 5
SubtitleFloor == 30

\* for (i = 0; i < words.length; i += 3) chunks.push(words.slice(i, i + 3).join(' '))
RECURSIVE Chunks(_)
Chunks(words) ==
    IF Len(words) = 0 THEN << >>
    ELSE IF Len(words) <= ChunkSize THEN <<Join(words)>>
    ELSE <<Join(SubSeq(words, 1, ChunkSize))>>
            \o Chunks(SubSeq(words, ChunkSize + 1, Len(words)))

Max(a, b) == IF a >= b THEN a ELSE b

\* formatSRTTime of a whole number of seconds: HH:MM:SS,mmm
\* the minutes are not carried: the clock wraps at 60 seconds
formatSRTTimeMutant(seconds) ==
    [hours |-> 0, minutes |-> 0, secs |-> seconds % 60, milliseconds |-> 0]

formatSRTTime(seconds) ==
    [hours |-> seconds \div 3600, minutes |-> (seconds % 3600) \div 60,
     secs |-> seconds % 60, milliseconds |-> 0]

\* no trailing blank cue is written
generateSubtitlesMutant(script) ==
    LET chunks == Chunks(Split(Trim(Clean(script))))
    IN [i \in 1 .. Len(chunks) |->
          [index |-> i,
           startTime |-> formatSRTTime((i - 1) * ChunkDuration),
           endTime |-> formatSRTTime(i * ChunkDuration),
           text |-> chunks[i]]]

\* the cues written to the .srt file, in file order
generateSubtitles(script) ==
    LET words == Split(Trim(Clean(script)))
        chunks == Chunks(words)
        totalDuration == Len(chunks) * ChunkDuration
        textCues == [i \in 1 .. Len(chunks) |->
                       [index |-> i,
                        startTime |-> formatSRTTime((i - 1) * ChunkDuration),
                        endTime |-> formatSRTTime(i * ChunkDuration),
                        text |-> chunks[i]]]
    IN IF totalDuration < SubtitleCap
       THEN Append(textCues,
                   [index |-> Len(chunks) + 1,
                    startTime |-> formatSRTTime(totalDuration),
                    endTime |-> formatSRTTime(Max(totalDuration + SubtitleTail, SubtitleFloor)),
                    text |-> << >>])
       ELSE textCues

call_generateSubtitles ==
    /\ call.fn = "generateSubtitles"
    /\ ~call.done
    /\ call' = [call EXCEPT !.ret = generateSubtitles(call.arg), !.done = TRUE]
    /\ UNCHANGED <<jobs, reqs, runs, raced, resp, view>>

\* a script of n words separated by single spaces
WordsScript(n) == [i \in 1 .. 2 * n - 1 |-> IF i % 2 = 1 THEN WordChar ELSE Space]
LongScripts == {WordsScript(n) : n \in 1 .. MaxWords}

InitSubtitles ==
    /\ Boot
    /\ call \in [fn : {"generateSubtitles"}, arg : Scripts \cup LongScripts,
                  ret : {None}, done : {FALSE}]

NextSubtitles == call_generateSubtitles

SpecSubtitles == InitSubtitles /\ [][NextSubtitles]_vars

\* the number of whitespace-delimited words of a text: its maximal runs of
\* characters other than whitespace
WordCount(s) ==
    Cardinality({i \in DOMAIN s : s[i] # Space /\ (i = 1 \/ s[i - 1] = Space)})

\* C20: generateSubtitles emits exactly ceil(N / 3) cues for a script of N
\* whitespace-delimited words counted after the stripping.
C20_CueCountIsCeil ==
    (call.fn = "generateSubtitles" /\ call.done)
    => Len(call.ret) = (WordCount(Clean(call.arg)) + ChunkSize - 1) \div ChunkSize

\* the seconds a formatted SRT time stands for
SecondsOf(t) == t.hours * 3600 + t.minutes * 60 + t.secs

\* VoiceResult.duration as the synthesizer reports it: getAudioDuration
\* returns undefined and the merged result carries no duration
VoiceDurations == {None}

\* audioDuration: voiceResult.duration || 30
FallbackAudioDuration == 30
AssemblerAudioDuration(duration) ==
    IF duration = None \/ duration = Some(0) THEN FallbackAudioDuration ELSE duration[1]

\* C21: the last cue generateSubtitles emits, a text cue or the trailing blank
\* cue, ends at or after every narration duration the run hands to the
\* assembler.
C21_CaptionsCoverNarration ==
    (call.fn = "generateSubtitles" /\ call.done)
    => /\ Len(call.ret) > 0
       /\ \A d \in VoiceDurations :
             SecondsOf(call.ret[Len(call.ret)].endTime) >= AssemblerAudioDuration(d)

\* a script long enough to get no trailing blank cue: its last cue is a text
\* cue
C21_Witness ==
    /\ call.fn = "generateSubtitles" /\ call.done
    /\ Len(call.ret) > 0
    /\ call.ret[Len(call.ret)].text # << >>

(***************************************************************************)
(* Segment planning: VideoService.createContentSegments                    *)
(***************************************************************************)

Stop == "."
PlanScripts == UNION {[1 .. n -> {WordChar, Space, Emoji, Stop}] : n \in 0 .. MaxScriptLen}
TotalDurations == 0 .. MaxTotalDuration

\* String.prototype.split(/[.!?]+/): a run of terminators is one separator
RECURSIVE SkipStops(_)
SkipStops(s) == IF s # << >> /\ Head(s) = Stop THEN SkipStops(Tail(s)) ELSE s
RECURSIVE SplitSentences(_)
SplitSentences(s) ==
    IF \E i \in DOMAIN s : s[i] = Stop
    THEN LET i == CHOOSE i \in DOMAIN s :
                     s[i] = Stop /\ \A k \in 1 .. i - 1 : s[k] # Stop
         IN <<SubSeq(s, 1, i - 1)>> \o SplitSentences(SkipStops(SubSeq(s, i, Len(s))))
    ELSE <<s>>

\* .filter(s => s.trim().length > 0)
NonBlank(s) == Trim(s) # << >>
Sentences(script) == SelectSeq(SplitSentences(Trim(Clean(script))), NonBlank)

segmentDuration == 4
Min(a, b) == IF a <= b THEN a ELSE b

\* for (let i = 0; i < sentences.length && i * segmentDuration < totalDuration; i++)
\* with i counted from 0 as in the source
RECURSIVE PlanFrom(_, _, _)
PlanFromMutant(sentences, totalDuration, i) ==
    IF i < Len(sentences)
    THEN <<[text |-> Trim(sentences[i + 1]),
            startTime |-> i * segmentDuration,
            duration |-> Min(segmentDuration, totalDuration - i * segmentDuration)]>>
         \o PlanFrom(sentences, totalDuration, i + 1)
    ELSE << >>
PlanFromUncutMutant(sentences, totalDuration, i) ==
    IF i < Len(sentences) /\ i * segmentDuration < totalDuration
    THEN <<[text |-> Trim(sentences[i + 1]),
            startTime |-> i * segmentDuration,
            duration |-> segmentDuration]>>
         \o PlanFrom(sentences, totalDuration, i + 1)
    ELSE << >>
PlanFrom(sentences, totalDuration, i) ==
    IF i < Len(sentences) /\ i * segmentDuration < totalDuration
    THEN <<[text |-> Trim(sentences[i + 1]),
            startTime |-> i * segmentDuration,
            duration |-> Min(segmentDuration, totalDuration - i * segmentDuration)]>>
         \o PlanFrom(sentences, totalDuration, i + 1)
    ELSE << >>

createContentSegments(script, totalDuration) == PlanFrom(Sentences(script), totalDuration, 0)

call_createContentSegments ==
    /\ call.fn = "createContentSegments" /\ ~call.done
    /\ call' = [call EXCEPT !.ret = createContentSegments(call.arg.script, call.arg.totalDuration),
                            !.done = TRUE]
    /\ UNCHANGED <<jobs, reqs, runs, raced, resp, view>>

InitPlan ==
    /\ Boot
    /\ call \in [fn : {"createContentSegments"},
                 arg : [script : PlanScripts, totalDuration : TotalDurations],
                 ret : {<< >>}, done : {FALSE}]

NextPlan == call_createContentSegments

SpecPlan == InitPlan /\ [][NextPlan]_vars

CeilDiv(a, b) == (a + b - 1) \div b

\* C22: for a script with S non-empty sentences and a total duration D > 0,
\* createContentSegments returns exactly min(S, ceil(D/4)) segments, the i-th
\* (from 0) carrying the i-th sentence and starting at 4*i; the sentences
\* beyond the time budget are dropped.
C22_SegmentCountAndStarts ==
    (call.fn = "createContentSegments" /\ call.done /\ call.arg.totalDuration > 0)
    => LET S == Sentences(call.arg.script)
           D == call.arg.totalDuration
       IN /\ Len(call.ret) = Min(Len(S), CeilDiv(D, segmentDuration))
          /\ \A k \in DOMAIN call.ret :
                /\ call.ret[k].text = Trim(S[k])
                /\ call.ret[k].startTime = (k - 1) * segmentDuration

\* a script with more sentences than the budget holds: the last is dropped
C22_Witness ==
    /\ call.fn = "createContentSegments" /\ call.done
    /\ call.arg.totalDuration > 0
    /\ Len(call.ret) = 2
    /\ Len(Sentences(call.arg.script)) = 3

Sum(f, n) == LET RECURSIVE Go(_)
                 Go(k) == IF k = 0 THEN 0 ELSE f[k].duration + Go(k - 1)
             IN Go(n)

\* C23: the segment durations returned by createContentSegments are all
\* positive and at most the slot length, only the last one may be shorter
\* than the slot length, and they sum to at most the total duration.
C23_DurationsFitBudget ==
    (call.fn = "createContentSegments" /\ call.done)
    => /\ \A k \in DOMAIN call.ret :
             /\ call.ret[k].duration > 0
             /\ call.ret[k].duration <= segmentDuration
             /\ k < Len(call.ret) => call.ret[k].duration = segmentDuration
       /\ Len(call.ret) > 0 => Sum(call.ret, Len(call.ret)) <= call.arg.totalDuration

\* two segments, the last one cut short by the budget
C23_Witness ==
    /\ call.fn = "createContentSegments" /\ call.done
    /\ Len(call.ret) = 2
    /\ call.ret[2].duration < segmentDuration

(***************************************************************************)
(* Narration synthesis: VoiceService.synthesizeLongText and processText    *)
(***************************************************************************)

\* A text is described by the lengths of its sentences; a sentence is a run
\* of word characters closed by a terminator and a space.
SentenceLens == {1250, 2500, 2501}
TextShapes == UNION {[1 .. n -> SentenceLens] : n \in 1 .. MaxSentences}
Sentence(n) ==
    [i \in 1 .. n |-> IF i = n THEN Space ELSE IF i = n - 1 THEN Stop ELSE WordChar]
RECURSIVE TextOf(_)
TextOf(shape) == IF shape = << >> THEN << >> ELSE Sentence(Head(shape)) \o TextOf(Tail(shape))

\* String.prototype.lastIndexOf(ch, from) and substring(a, b), with the
\* source's indices counted from 0
LastIndexOf(text, ch, from) ==
    LET S == {j \in 0 .. Min(from, Len(text) - 1) : text[j + 1] = ch}
    IN IF S = {} THEN -1 ELSE CHOOSE j \in S : \A k \in S : k <= j
Substring(text, a, b) == SubSeq(text, Min(a, b) + 1, Max(a, b))

NonEmpty(part) == part # << >>

\* VoiceService.splitText: the cut chosen for the chunk that starts at start
CutAt(text, maxLen, start) ==
    LET end0 == Min(Len(text), start + maxLen)
        \* Math.max over '.', '!' and '?'; Stop is the only terminator here
        sentenceEnd == Max(LastIndexOf(text, Stop, end0), -1)
        lastSpace == LastIndexOf(text, Space, end0)
    IN IF end0 < Len(text)
       THEN IF sentenceEnd > start THEN sentenceEnd + 1
            ELSE IF lastSpace > start THEN lastSpace ELSE end0
       ELSE end0

\* a while loop whose start does not advance never ends; the list then ends
\* with Loops
Loops == <<"loops">>

Hangs(parts) == \E k \in DOMAIN parts : parts[k] = Loops

RECURSIVE SplitFrom(_, _, _)
SplitFrom(text, maxLen, start) ==
    IF start < Len(text)
    THEN LET end == CutAt(text, maxLen, start)
         IN IF end <= start THEN <<Loops>>
            ELSE <<Trim(Substring(text, start, end))>> \o SplitFrom(text, maxLen, end)
    ELSE << >>
splitText(text, maxLen) == SelectSeq(SplitFrom(text, maxLen, 0), NonEmpty)

\* splitText of createAudio, used by processText
CutBySpaceAt(text, maxLen, start) ==
    LET end0 == Min(Len(text), start + maxLen)
    IN IF end0 < Len(text) /\ text[end0] # Space /\ text[end0 + 1] # Space
       THEN LastIndexOf(text, Space, end0) + 1
       ELSE end0

RECURSIVE SplitBySpaceFrom(_, _, _)
SplitBySpaceFrom(text, maxLen, start) ==
    IF start < Len(text)
    THEN LET end == CutBySpaceAt(text, maxLen, start)
         IN IF end <= start THEN <<Loops>>
            ELSE <<Substring(text, start, end)>> \o SplitBySpaceFrom(text, maxLen, end)
    ELSE << >>
createAudio_splitText(text, maxLen) == SplitBySpaceFrom(text, maxLen, 0)

maxLength == 2500
createAudio_maxLength == 3900
createAudio_cap == 7500

\* the pieces each synthesizer sends to its provider, one request per piece
Pieces(fn, text) ==
    IF fn = "synthesizeLongText"
    THEN IF Len(text) <= maxLength THEN <<text>> ELSE splitText(text, maxLength)
    ELSE IF Len(text) > createAudio_maxLength
         THEN createAudio_splitText(text, createAudio_maxLength)
         ELSE <<text>>
IsSplit(fn, text) ==
    Len(text) > (IF fn = "synthesizeLongText" THEN maxLength ELSE createAudio_maxLength)

\* An audio file is the list of the pieces it speaks, by position in Pieces.
NoFile == << >>
Concat(files) == LET RECURSIVE Go(_)
                     Go(fs) == IF fs = << >> THEN << >> ELSE Head(fs) \o Go(Tail(fs))
                 IN Go(files)

\* VoiceService.mergeAudioFiles copies the first file only
mergeAudioFiles(audioFiles) == IF Len(audioFiles) > 0 THEN audioFiles[1] ELSE NoFile

\* createAudio's mergeAudio streams every file into the output
mergeAudio(files) == Concat(files)

\* one pass of the loop of synthesizeLongText (or its single request for a
\* text within the ceiling): the provider answers or fails
synthesizeLongText_synthesizeSpeech ==
    /\ call.fn = "synthesizeLongText" /\ ~call.done
    /\ call.i < Len(Pieces(call.fn, TextOf(call.arg)))
    /\ \E ok \in BOOLEAN :
          call' = IF ~ok
                  THEN [call EXCEPT !.requests = @ + 1, !.ret = None, !.done = TRUE]
                  ELSE IF ~IsSplit(call.fn, TextOf(call.arg))
                  THEN [call EXCEPT !.requests = @ + 1, !.i = @ + 1,
                                    !.ret = Some([audioPath |-> <<1>>, duration |-> None]),
                                    !.done = TRUE]
                  ELSE [call EXCEPT !.requests = @ + 1, !.i = @ + 1,
                                    !.audioFiles = Append(@, <<call.i + 1>>)]
    /\ UNCHANGED <<jobs, reqs, runs, raced, resp, view>>

synthesizeLongText_mergeAudioFiles ==
    /\ call.fn = "synthesizeLongText" /\ ~call.done
    /\ IsSplit(call.fn, TextOf(call.arg))
    /\ call.i = Len(Pieces(call.fn, TextOf(call.arg)))
    /\ call' = [call EXCEPT !.ret = Some([audioPath |-> mergeAudioFiles(call.audioFiles),
                                          duration |-> None]),
                            !.done = TRUE]
    /\ UNCHANGED <<jobs, reqs, runs, raced, resp, view>>

processText_reject ==
    /\ call.fn = "processText" /\ ~call.done
    /\ Len(TextOf(call.arg)) > createAudio_cap
    /\ call' = [call EXCEPT !.ret = None, !.done = TRUE]
    /\ UNCHANGED <<jobs, reqs, runs, raced, resp, view>>

processText_synthesizeSpeech ==
    /\ call.fn = "processText" /\ ~call.done
    /\ Len(TextOf(call.arg)) <= createAudio_cap
    /\ LET parts == Pieces(call.fn, TextOf(call.arg))
       IN /\ \A k \in DOMAIN parts : parts[k] # Loops
          /\ call.i < Len(parts)
    /\ \E ok \in BOOLEAN :
          call' = IF ~IsSplit(call.fn, TextOf(call.arg))
                  THEN [call EXCEPT !.requests = @ + 1, !.i = @ + 1,
                                    !.ret = IF ok THEN Some(<<1>>) ELSE None,
                                    !.done = TRUE]
                  ELSE [call EXCEPT !.requests = @ + 1, !.i = @ + 1,
                                    !.audioFiles = IF ok THEN Append(@, <<call.i + 1>>) ELSE @]
    /\ UNCHANGED <<jobs, reqs, runs, raced, resp, view>>

processText_mergeAudio ==
    /\ call.fn = "processText" /\ ~call.done
    /\ Len(TextOf(call.arg)) <= createAudio_cap
    /\ IsSplit(call.fn, TextOf(call.arg))
    /\ LET parts == Pieces(call.fn, TextOf(call.arg))
       IN /\ \A k \in DOMAIN parts : parts[k] # Loops
          /\ call.i = Len(parts)
    /\ call' = [call EXCEPT !.ret = Some(mergeAudio(call.audioFiles)), !.done = TRUE]
    /\ UNCHANGED <<jobs, reqs, runs, raced, resp, view>>

InitVoice ==
    /\ Boot
    /\ call \in [fn : {"synthesizeLongText", "processText"}, arg : TextShapes,
                 i : {0}, audioFiles : {<< >>}, requests : {0},
                 ret : {None}, done : {FALSE}]

NextVoice ==
    \/ synthesizeLongText_synthesizeSpeech
    \/ synthesizeLongText_mergeAudioFiles
    \/ processText_reject
    \/ processText_synthesizeSpeech
    \/ processText_mergeAudio

SpecVoice == InitVoice /\ [][NextVoice]_vars

VoiceCall == call.fn \in {"synthesizeLongText", "processText"}
Returned(fn) == call.fn = fn /\ call.done /\ call.ret # None
AllPieces(fn) == [k \in 1 .. Len(Pieces(fn, TextOf(call.arg))) |-> k]

\* C24: when the script exceeds the request ceiling, the narration that
\* synthesizeLongText returns is the audio of every chunk, in chunk order,
\* none missing.
C24_NarrationIsEveryChunkInOrder ==
    (Returned("synthesizeLongText") /\ IsSplit(call.fn, TextOf(call.arg)))
    => call.ret[1].audioPath = AllPieces("synthesizeLongText")

\* C25: if the synthesis of any chunk of a split script fails, the whole
\* synthesis returns no result, for synthesizeLongText and for processText.
C25_ChunkFailureFailsAll ==
    (/\ VoiceCall /\ call.done
     /\ IsSplit(call.fn, TextOf(call.arg))
     /\ call.requests > Len(call.audioFiles))
    => call.ret = None

\* C26: when the input text exceeds the absolute cap, no provider request is
\* made and the synthesis returns no narration.
C26_OverCapFailsWithoutRequest ==
    (VoiceCall /\ Len(TextOf(call.arg)) > createAudio_cap)
    => /\ call.requests = 0
       /\ call.done => call.ret = None

(***************************************************************************)
(* Dynamic mode: VideoService.downloadSegmentMedia                         *)
(***************************************************************************)

\* planned segments are what createContentSegments returns
SentencesScript(n) == [i \in 1 .. 2 * n |-> IF i % 2 = 1 THEN WordChar ELSE Stop]
SegmentPlans ==
    {createContentSegments(SentencesScript(n), d) : n \in 0 .. MaxSegments, d \in TotalDurations}

BaselineClip == <<"test_video.mp4", 0>>
DownloadedClip(i) == <<"clip", i>>

\* what the search, the download and the cp of one loop pass can do
SegmentOutcomes == {"downloaded", "substituted", "unsubstitutable"}

\* the catch block: cp of the previous entry's file, or of the base video
FallbackSourceMutant(mediaSegments, i) == BaselineClip
FallbackSource(mediaSegments, i) ==
    IF i > 0 /\ i <= Len(mediaSegments) THEN mediaSegments[i].clip ELSE BaselineClip

\* one pass of the loop, i counted from 0 as in the source
downloadSegmentMedia_segment ==
    /\ call.fn = "downloadSegmentMedia" /\ ~call.done
    /\ call.i < Len(call.arg)
    /\ \E outcome \in SegmentOutcomes :
          LET segment == call.arg[call.i + 1]
              entry(clip, fallback) ==
                  [localPath |-> call.i, clip |-> clip, fallback |-> fallback,
                   startTime |-> segment.startTime, duration |-> segment.duration]
              pushed == IF outcome = "downloaded"
                        THEN Append(call.mediaSegments, entry(DownloadedClip(call.i), FALSE))
                        ELSE Append(call.mediaSegments,
                                    entry(FallbackSource(call.mediaSegments, call.i), TRUE))
          IN call' = IF outcome = "unsubstitutable"
                     THEN [call EXCEPT !.events = Append(@, outcome),
                                       !.failed = TRUE, !.done = TRUE]
                     ELSE [call EXCEPT !.events = Append(@, outcome),
                                       !.mediaSegments = pushed,
                                       !.i = @ + 1,
                                       !.ret = IF call.i + 1 = Len(call.arg) THEN pushed ELSE @,
                                       !.done = (call.i + 1 = Len(call.arg))]
    /\ UNCHANGED <<jobs, reqs, runs, raced, resp, view>>

\* for (...) over no segment at all: the empty list is returned
downloadSegmentMedia_none ==
    /\ call.fn = "downloadSegmentMedia" /\ ~call.done
    /\ Len(call.arg) = 0
    /\ call' = [call EXCEPT !.done = TRUE]
    /\ UNCHANGED <<jobs, reqs, runs, raced, resp, view>>

InitSegments ==
    /\ Boot
    /\ call \in [fn : {"downloadSegmentMedia"}, arg : SegmentPlans,
                 i : {0}, mediaSegments : {<< >>}, events : {<< >>},
                 failed : {FALSE}, ret : {<< >>}, done : {FALSE}]

NextSegments == downloadSegmentMedia_segment \/ downloadSegmentMedia_none

SpecSegments == InitSegments /\ [][NextSegments]_vars

\* the clip of the latest segment before k that was downloaded, else the
\* baseline clip (k counted from 1)
ExpectedClip(events, k) ==
    IF events[k] = "downloaded" THEN DownloadedClip(k - 1)
    ELSE LET S == {j \in 1 .. k - 1 : events[j] = "downloaded"}
         IN IF S = {} THEN BaselineClip
            ELSE DownloadedClip((CHOOSE j \in S : \A m \in S : m <= j) - 1)

\* C27: downloadSegmentMedia returns one media segment per planned segment,
\* in order, with the planned startTime and duration; a segment whose search
\* or download failed holds the clip of the latest successfully downloaded
\* segment before it, or the baseline clip when there is none; the operation
\* fails only when that substitution itself failed.
C27_OneClipPerSegmentWithFallback ==
    (call.fn = "downloadSegmentMedia" /\ call.done)
    => /\ call.failed <=> (call.events # << >>
                           /\ call.events[Len(call.events)] = "unsubstitutable")
       /\ ~call.failed =>
             /\ Len(call.ret) = Len(call.arg)
             /\ \A k \in DOMAIN call.ret :
                   /\ call.ret[k].startTime = call.arg[k].startTime
                   /\ call.ret[k].duration = call.arg[k].duration
                   /\ call.ret[k].localPath = k - 1
                   /\ call.ret[k].clip = ExpectedClip(call.events, k)

\* three segments: the first downloaded, the next two substituted
C27_Witness ==
    /\ call.fn = "downloadSegmentMedia" /\ call.done /\ ~call.failed
    /\ call.events = <<"downloaded", "substituted", "substituted">>
    /\ call.ret[3].clip = DownloadedClip(0)

(***************************************************************************)
(* Isolation and persistence order of a run                                *)
(***************************************************************************)

\* C28: a run writes only the record of its own Job: whatever step a run
\* takes, and however the runs of different Jobs interleave, every other Job
\* is left as it was and no Job is added or removed.
C28_RunWritesOnlyItsJob ==
    [][\A r \in DOMAIN runs :
         (r \in DOMAIN runs' /\ runs'[r] # runs[r])
         => /\ DOMAIN jobs' = DOMAIN jobs
            /\ \A k \in JobIds \ {runs[r].job} : jobs'[k] = jobs[k]
      ]_vars

\* the runs of two different Jobs are in flight: one has persisted the
\* article, the other is about to and its Job still has no title
C28_Witness ==
    \E r \in DOMAIN runs, k \in DOMAIN runs :
       /\ runs[r].job # runs[k].job
       /\ runs[r].job \in JobIds /\ runs[k].job \in JobIds
       /\ runs[r].pc = "processArticle"
       /\ jobs[runs[r].job].title # None
       /\ runs[k].pc = "saveContent"
       /\ jobs[runs[k].job].title = None

C30_DoneHasAudioPathAndDuration ==
    \A j \in JobIds :
       jobs[j].status = "done"
       => jobs[j].audioPath # None /\ jobs[j].audioDuration # None

(***************************************************************************)
(* Failure at a later stage                                                *)
(***************************************************************************)

SynthesisFailure == "Failed to synthesize speech"
NoSuitableMedia == "No suitable background video found"
AssemblyFailure == "Video assembly failed"

AudioFieldsSet(job) == job.audioPath # None /\ job.audioDuration # None
AudioUnset(job) == job.audioPath = None /\ job.audioDuration = None
VideoUnset(job) ==
    /\ job.videoPath = None /\ job.videoDuration = None /\ job.videoSize = None
    /\ job.videoResolution = None /\ job.videoUrl = None /\ ~job.hasSubtitles

\* C31: a Job whose only run failed at a stage and recorded that failure
\* holds exactly the fields of the stages before it: after a synthesis
\* failure the article and neither audio nor video fields; after no suitable
\* media, or after an assembly failure, the article and the audio fields
\* (location and duration) and no video field.
C31_FailureKeepsEarlierStagesOnly ==
    \A r \in DOMAIN runs :
       (OnlyRun(r) /\ runs[r].pc = "finished" /\ jobs[runs[r].job].status = "error")
       => LET job == jobs[runs[r].job]
          IN /\ job.error = Some(SynthesisFailure)
                => ContentSet(job) /\ AudioUnset(job) /\ VideoUnset(job)
             /\ job.error \in {Some(NoSuitableMedia), Some(AssemblyFailure)}
                => ContentSet(job) /\ AudioFieldsSet(job) /\ VideoUnset(job)

(***************************************************************************)
(* Media collection: MediaService.getMediaForArticle                       *)
(***************************************************************************)

\* a query is known by its length; the filter keeps those longer than 3
QueryLens == {3, 4}
MinQueryLen == 3
MaxSubQueries == 4
Take(s, n) == SubSeq(s, 1, Min(n, Len(s)))
LongEnough(len) == len > MinQueryLen

\* [title.slice(0, 50), ...keyPoints.slice(0, 2), ...tags.slice(0, 3)]
\*    .filter(query => query.length > 3), then .slice(0, 4)
searchQueries(title, keyPoints, tags) ==
    SelectSeq(<<Min(title, 50)>> \o Take(keyPoints, 2) \o Take(tags, 3), LongEnough)
SubQueries(arg) == Take(searchQueries(arg.title, arg.keyPoints, arg.tags), MaxSubQueries)

\* the synchronous part up to await Promise.all(searchPromises): every
\* sub-query is started, each with its video search and its image search
getMediaForArticle_issue ==
    /\ call.fn = "getMediaForArticle" /\ ~call.issued
    /\ call' = [call EXCEPT !.issued = TRUE,
                            !.sub = [k \in DOMAIN SubQueries(call.arg) |-> "pending"],
                            !.requests = 2 * Len(SubQueries(call.arg))]
    /\ UNCHANGED <<jobs, reqs, runs, raced, resp, view>>

\* Promise.all([searchVideos, searchImages]) of one sub-query settles, in any
\* order among the sub-queries, also after getMediaForArticle has thrown
subQuery_settle ==
    /\ call.fn = "getMediaForArticle" /\ call.issued
    /\ \E k \in DOMAIN call.sub, videos \in BOOLEAN, images \in BOOLEAN :
          /\ call.sub[k] = "pending"
          /\ call' = [call EXCEPT !.sub[k] = IF videos /\ images THEN "ok" ELSE "failed"]
    /\ UNCHANGED <<jobs, reqs, runs, raced, resp, view>>

\* the join that waits for every sub-query and drops the failed ones
getMediaForArticle_joinMutant ==
    /\ call.fn = "getMediaForArticle" /\ call.issued /\ ~call.done
    /\ \A k \in DOMAIN call.sub : call.sub[k] # "pending"
    /\ call' = [call EXCEPT !.ret = "returned", !.done = TRUE]
    /\ UNCHANGED <<jobs, reqs, runs, raced, resp, view>>

\* await Promise.all(searchPromises): rejected as soon as one sub-query has
\* failed, fulfilled when all have succeeded
getMediaForArticle_join ==
    /\ call.fn = "getMediaForArticle" /\ call.issued /\ ~call.done
    /\ \/ /\ \E k \in DOMAIN call.sub : call.sub[k] = "failed"
          /\ call' = [call EXCEPT !.ret = "Media collection failed", !.done = TRUE]
       \/ /\ \A k \in DOMAIN call.sub : call.sub[k] = "ok"
          /\ call' = [call EXCEPT !.ret = "returned", !.done = TRUE]
    /\ UNCHANGED <<jobs, reqs, runs, raced, resp, view>>

InitFanOut ==
    /\ Boot
    /\ call \in [fn : {"getMediaForArticle"},
                 arg : [title : QueryLens,
                        keyPoints : UNION {[1 .. n -> QueryLens] : n \in 0 .. MaxKeyPoints},
                        tags : UNION {[1 .. n -> QueryLens] : n \in 0 .. MaxTags}],
                 issued : {FALSE}, sub : {<< >>}, requests : {0},
                 ret : {"none"}, done : {FALSE}]

NextFanOut == getMediaForArticle_issue \/ subQuery_settle \/ getMediaForArticle_join

SpecFanOut == InitFanOut /\ [][NextFanOut]_vars

C33_CuesContiguousFromZero ==
    (call.fn = "generateSubtitles" /\ call.done)
    => /\ Len(call.ret) > 0
       /\ call.ret[1].startTime = formatSRTTime(0)
       /\ SecondsOf(call.ret[1].startTime) = 0
       /\ \A i \in DOMAIN call.ret :
             /\ call.ret[i].index = i
             /\ SecondsOf(call.ret[i].startTime) < SecondsOf(call.ret[i].endTime)
             /\ i > 1 => /\ call.ret[i].startTime = call.ret[i - 1].endTime
                         /\ SecondsOf(call.ret[i - 1].startTime)
                               < SecondsOf(call.ret[i].startTime)

\* text cues followed by the trailing blank cue, which starts where the last
\* text cue ends
C33_Witness ==
    /\ call.fn = "generateSubtitles" /\ call.done
    /\ Len(call.ret) >= 3
    /\ call.ret[Len(call.ret)].text = << >>
    /\ call.ret[Len(call.ret) - 1].text # << >>
    /\ SecondsOf(call.ret[Len(call.ret)].startTime) > 0

(***************************************************************************)
(* The text splitters: VoiceService.splitText and createAudio's splitText  *)
(***************************************************************************)

\* short texts under short ceilings, and texts around the 2500 ceiling of
\* synthesizeLongText: a terminator at index 2500, a sentence that fits
SplitTexts == UNION {[1 .. n -> {WordChar, Space, Stop}] : n \in 0 .. MaxTextLen}
SplitLengths == 1 .. MaxSplitLength
CeilingSentenceLens == {1250, 2502}
CeilingTexts == {TextOf(shape) : shape \in [1 .. 2 -> CeilingSentenceLens]}
SplitArgs ==
    [text : SplitTexts, maxLength : SplitLengths]
       \cup [text : CeilingTexts, maxLength : {maxLength}]

call_splitText ==
    /\ call.fn = "splitText" /\ ~call.done /\ ~call.hung
    /\ LET parts == splitText(call.arg.text, call.arg.maxLength)
       IN call' = IF Hangs(parts) THEN [call EXCEPT !.hung = TRUE]
                  ELSE [call EXCEPT !.ret = parts, !.done = TRUE]
    /\ UNCHANGED <<jobs, reqs, runs, raced, resp, view>>

call_createAudio_splitText ==
    /\ call.fn = "createAudio_splitText" /\ ~call.done /\ ~call.hung
    /\ LET parts == createAudio_splitText(call.arg.text, call.arg.maxLength)
       IN call' = IF Hangs(parts) THEN [call EXCEPT !.hung = TRUE]
                  ELSE [call EXCEPT !.ret = parts, !.done = TRUE]
    /\ UNCHANGED <<jobs, reqs, runs, raced, resp, view>>

InitSplit ==
    /\ Boot
    /\ call \in [fn : {"splitText", "createAudio_splitText"}, arg : SplitArgs,
                 ret : {<< >>}, done : {FALSE}, hung : {FALSE}]

NextSplit == call_splitText \/ call_createAudio_splitText

SpecSplit == InitSplit /\ [][NextSplit]_vars

\* C34: for a text longer than the ceiling, every chunk returned by
\* VoiceService.splitText is non-empty and at most the ceiling long, also
\* when a sentence terminator sits exactly at the cut position.
C34_ChunksWithinCeiling ==
    (/\ call.fn = "splitText" /\ call.done
     /\ Len(call.arg.text) > call.arg.maxLength)
    => \A k \in DOMAIN call.ret :
          /\ Len(call.ret[k]) > 0
          /\ Len(call.ret[k]) <= call.arg.maxLength

\* the cuts a splitter makes: the start and the end of each chunk, with the
\* source's indices counted from 0
RECURSIVE CutsFrom(_, _, _, _)
CutsFrom(fn, text, maxLen, start) ==
    IF start < Len(text)
    THEN LET end == IF fn = "splitText" THEN CutAt(text, maxLen, start)
                    ELSE CutBySpaceAt(text, maxLen, start)
         IN IF end <= start THEN << >>
            ELSE <<[start |-> start, end |-> end]>> \o CutsFrom(fn, text, maxLen, end)
    ELSE << >>

IsPrefix(p, s) == Len(p) <= Len(s) /\ SubSeq(s, 1, Len(p)) = p

\* text is the chunks in order, with nothing but whitespace before, between
\* and after them
RECURSIVE Covers(_, _)
Covers(text, parts) ==
    LET rest == TrimStart(text)
    IN IF parts = << >> THEN rest = << >>
       ELSE LET part == Trim(Head(parts))
            IN IF part = << >> THEN Covers(text, Tail(parts))
               ELSE IsPrefix(part, rest)
                    /\ Covers(SubSeq(rest, Len(part) + 1, Len(rest)), Tail(parts))

CharIn(text, ch, from, to) == \E j \in from .. to - 1 : text[j + 1] = ch

\* the cut at end comes after a terminator (and the whitespace that follows
\* it, if any); the cut at end has a whitespace on one side
AfterSentence(text, end) ==
    LET before == TrimEnd(SubSeq(text, 1, end))
    IN before # << >> /\ before[Len(before)] = Stop
AtWhitespace(text, end) ==
    \/ end >= 1 /\ text[end] = Space
    \/ end < Len(text) /\ text[end + 1] = Space

\* C35: the chunks of a splitter are the text in order, nothing dropped or
\* duplicated but whitespace at the cuts; a cut made before the end of the
\* text comes at a sentence boundary when the window (the characters after
\* the first of the chunk, up to the ceiling) holds a terminator, and
\* otherwise at a whitespace when the window holds one.
C35_ChunksCoverTextAtBoundaries ==
    (call.fn \in {"splitText", "createAudio_splitText"} /\ call.done)
    => LET text == call.arg.text
           cuts == CutsFrom(call.fn, text, call.arg.maxLength, 0)
       IN /\ Covers(text, call.ret)
          /\ \A k \in DOMAIN cuts :
                LET start == cuts[k].start
                    end == cuts[k].end
                    end0 == Min(Len(text), start + call.arg.maxLength)
                IN end0 < Len(text)
                   => /\ CharIn(text, Stop, start + 1, end0) => AfterSentence(text, end)
                      /\ (~CharIn(text, Stop, start + 1, end0)
                            /\ CharIn(text, Space, start + 1, end0))
                         => AtWhitespace(text, end)

\* C36: both splitters terminate on every text and every positive
\* maxLength: each pass of the loop moves start forward, so the call returns.
C36_SplitTerminates ==
    call.fn \in {"splitText", "createAudio_splitText"} => ~call.hung

(***************************************************************************)
(* Search query of a segment: VideoService.extractSearchQuery              *)
(***************************************************************************)

\* A sentence is a list of words. The words stand for (transliterated):
\* sport 'спорт' and zdorovie 'здоровье', keys of the dictionary;
\* kazakhstana 'казахстана', which only contains the key 'казахстан'; lyudi
\* 'люди'; xyz, a word the function knows nothing of; ya 'я', a word of fewer
\* than 3 characters; and the English word constructor.
QueryWords == {"sport", "zdorovie", "kazakhstana", "lyudi", "xyz", "ya", "constructor"}
ShortWords == {"ya"}
QuerySentences == UNION {[1 .. n -> QueryWords] : n \in 0 .. MaxQueryWords}
KeyPointWords == {"sport", "xyz", "ya"}
KeyPointLists == UNION {[1 .. n -> KeyPointWords] : n \in 0 .. MaxKeyPoints}

\* the entries of translations that the words above can hit
translations ==
    [w \in {"sport", "zdorovie"} |->
       CASE w = "sport" -> "sport fitness"
         [] w = "zdorovie" -> "health medical"]

\* translations is an object literal, so translations[word] also finds what
\* Object.prototype holds under that name: for 'constructor' the function
\* Object, which is truthy and is joined into the query as its source text
Inherited == [w \in {"constructor"} |-> "function Object() { [native code] }"]
HasEntry(w) == w \in DOMAIN translations \/ w \in DOMAIN Inherited
Entry(w) == IF w \in DOMAIN translations THEN translations[w] ELSE Inherited[w]

\* the substrings looked for with includes() that each word contains
StemsOf(w) ==
    CASE w = "zdorovie" -> {"zdorov"}
      [] w = "kazakhstana" -> {"kazakhstan"}
      [] w = "lyudi" -> {"lyudi"}
      [] OTHER -> {}
TextIncludes(text, s) == \E i \in DOMAIN text : text[i] = s \/ s \in StemsOf(text[i])
IncludesAny(text, stems) == \E s \in stems : TextIncludes(text, s)

\* the five context tests, in source order
ContextRules ==
    << [stems |-> {"zagryazn", "ekolog"}, term |-> "pollution environment"],
       [stems |-> {"zdorov", "medicin"}, term |-> "health medical"],
       [stems |-> {"obrazovan", "shkol", "student"}, term |-> "education school"],
       [stems |-> {"tehnolog", "cifrov"}, term |-> "technology digital"],
       [stems |-> {"politik", "pravitelstv", "vybor"}, term |-> "politics government"] >>

RECURSIVE WordTerms(_)
WordTerms(words) ==
    IF words = << >> THEN << >>
    ELSE (IF Head(words) \notin ShortWords /\ HasEntry(Head(words))
          THEN <<Entry(Head(words))>> ELSE << >>) \o WordTerms(Tail(words))

RECURSIVE ContextTerms(_, _)
ContextTerms(text, rules) ==
    IF rules = << >> THEN << >>
    ELSE (IF IncludesAny(text, Head(rules).stems) THEN <<Head(rules).term>> ELSE << >>)
         \o ContextTerms(text, Tail(rules))

RECURSIVE KeyPointTerms(_, _)
KeyPointTerms(text, keyPoints) ==
    IF keyPoints = << >> THEN << >>
    ELSE LET point == Head(keyPoints)
         IN (IF TextIncludes(text, point)
             THEN IF HasEntry(point) THEN <<Entry(point)>>
                  ELSE IF point \notin ShortWords THEN <<point>> ELSE << >>
             ELSE << >>) \o KeyPointTerms(text, Tail(keyPoints))

MaxTerms == 4

AllTerms(text, keyPoints) ==
    LET allTerms == WordTerms(text) \o KeyPointTerms(text, keyPoints)
                       \o ContextTerms(text, ContextRules)
    IN IF allTerms # << >> THEN allTerms
       ELSE IF IncludesAny(text, {"kazakhstan", "almaty"}) THEN <<"kazakhstan city urban">>
       ELSE IF IncludesAny(text, {"lyudi", "chelovek"}) THEN <<"people society">>
       ELSE <<"modern life urban">>

\* the terms of the returned query, which is their join(' ')
extractSearchQuery(text, keyPoints) == Take(AllTerms(text, keyPoints), MaxTerms)

call_extractSearchQuery ==
    /\ call.fn = "extractSearchQuery" /\ ~call.done
    /\ call' = [call EXCEPT !.ret = extractSearchQuery(call.arg.text, call.arg.keyPoints),
                            !.done = TRUE]
    /\ UNCHANGED <<jobs, reqs, runs, raced, resp, view>>

InitQuery ==
    /\ Boot
    /\ call \in [fn : {"extractSearchQuery"},
                 arg : [text : QuerySentences, keyPoints : KeyPointLists],
                 ret : {<< >>}, done : {FALSE}]

NextQuery == call_extractSearchQuery

SpecQuery == InitQuery /\ [][NextQuery]_vars

GenericPhrases == {"kazakhstan city urban", "people society", "modern life urban"}

\* no word, key point or context test of the sentence hits
NoKeywordMatches(text, keyPoints) ==
    /\ \A i \in DOMAIN text : text[i] \notin DOMAIN translations
    /\ \A k \in DOMAIN ContextRules : ~IncludesAny(text, ContextRules[k].stems)
    /\ \A k \in DOMAIN keyPoints :
          ~TextIncludes(text, keyPoints[k]) \/ keyPoints[k] \in ShortWords

\* C37: extractSearchQuery returns a non-empty query of at most 4 terms,
\* each of them non-empty; when no keyword of the dictionary matches the
\* query is one generic topic phrase; and the query is a function of the
\* sentence and the key points alone.
C37_QueryNonEmptyAtMostFourTerms ==
    (call.fn = "extractSearchQuery" /\ call.done)
    => /\ Len(call.ret) >= 1 /\ Len(call.ret) <= 4
       /\ \A k \in DOMAIN call.ret : call.ret[k] # ""
       /\ NoKeywordMatches(call.arg.text, call.arg.keyPoints)
             => Len(call.ret) = 1 /\ call.ret[1] \in GenericPhrases
       /\ call.ret = extractSearchQuery(call.arg.text, call.arg.keyPoints)

\* ---------------------------------------------------------------------------
\* The fallback-title search of the first pipeline (part_007: run, hasTitle;
\* part_004: searchVideos)
\* ---------------------------------------------------------------------------

MaxRetries == 3

\* titles the language model may answer with
Titles == {"kazakhstan mountain lake", "mountain lake", "lake"}

NoVideo == "null"

StockVideo == "video_files.link"

\* searchVideos(query): a link of one of the videos found, null when the
\* search found none or threw
searchVideos(stock, query) ==
    IF query \in stock THEN {StockVideo, NoVideo} ELSE {NoVideo}

\* the depth of the recursion, counted up to MaxRetries + 1 and kept there
Deeper(n) == IF n <= MaxRetries THEN n + 1 ELSE n

\* run, one title of the list: const video = await searchVideos(res.title)
run_searchVideos ==
    /\ call.fn = "hasTitle" /\ ~call.done /\ call.pc = "run"
    /\ \E video \in searchVideos(call.stock, call.title) :
          call' = IF video # NoVideo
                  THEN [call EXCEPT !.ret = video, !.done = TRUE]
                  ELSE [call EXCEPT !.pc = "generateContent"]
    /\ UNCHANGED <<jobs, reqs, runs, raced, resp, view>>

\* hasTitle: the model is asked for a simpler title; the call or the parse of
\* its answer may throw, which rejects hasTitle and every caller up to run
hasTitle_generateContent ==
    /\ call.fn = "hasTitle" /\ ~call.done /\ call.pc = "generateContent"
    /\ \/ \E t \in Titles :
             call' = [call EXCEPT !.title = t, !.pc = "searchVideos"]
       \/ call' = [call EXCEPT !.ret = "An error occurred", !.done = TRUE]
    /\ UNCHANGED <<jobs, reqs, runs, raced, resp, view>>

\* hasTitle: the new title is searched; a miss calls hasTitle again
hasTitle_searchVideos ==
    /\ call.fn = "hasTitle" /\ ~call.done /\ call.pc = "searchVideos"
    /\ \E video \in searchVideos(call.stock, call.title) :
          call' = IF video # NoVideo
                  THEN [call EXCEPT !.ret = video, !.done = TRUE]
                  ELSE [call EXCEPT !.pc = "generateContent",
                                    !.retries = Deeper(call.retries)]
    /\ UNCHANGED <<jobs, reqs, runs, raced, resp, view>>

InitRetry ==
    /\ Boot
    /\ call \in [fn : {"hasTitle"}, stock : SUBSET Titles, title : Titles,
                 pc : {"run"}, retries : {0}, ret : {NoVideo}, done : {FALSE}]

NextRetry == run_searchVideos \/ hasTitle_generateContent \/ hasTitle_searchVideos

\* every awaited call returns or throws
SpecRetry == InitRetry /\ [][NextRetry]_vars /\ WF_vars(NextRetry)

\* C38: the fallback-title retry ends: whatever the stock search answers, and
\* also when it never returns a video, the search for one title eventually
\* returns a video or fails, after at most a fixed number of retries.
C38_RetryTerminates ==
    <>(call.fn = "hasTitle" => call.done)

\* ---------------------------------------------------------------------------
\* Temporary files of a video assembly (videoService.ts: assembleVideo,
\* assembleDynamicVideo, assembleDynamicVideoWithFFmpeg, cleanupTempFiles)
\* ---------------------------------------------------------------------------

\* files of the temp directory, named by kind and index
BackgroundFile == <<"bg", 0>>

SubtitleFile == <<"subtitles", 0>>

ConcatFile == <<"concat", 0>>

SegmentFile(i) == <<"segment", i>>

AssemblyFns == {"assembleVideo", "assembleDynamicVideo"}

AssemblyFailed(c, message) == [c EXCEPT !.ret = message, !.done = TRUE]

AssemblyFailure_of(fn) ==
    IF fn = "assembleVideo" THEN "Video assembly failed"
    ELSE "Dynamic video assembly failed"

Assembling(fn, pc) == call.fn = fn /\ ~call.done /\ call.pc = pc

\* assembleVideo, step 1: curl writes bg_<id>.mp4 or fails; a failed curl may
\* have created the file already
assembleVideo_downloadBackgroundVideo ==
    /\ Assembling("assembleVideo", "download")
    /\ \/ call' = [call EXCEPT !.temp = @ \cup {BackgroundFile}, !.pc = "subtitles"]
       \/ \E left \in SUBSET {BackgroundFile} :
             call' = AssemblyFailed([call EXCEPT !.temp = @ \cup left],
                                    AssemblyFailure_of(call.fn))
    /\ UNCHANGED <<jobs, reqs, runs, raced, resp, view>>

\* assembleDynamicVideo, step 2: downloadSegmentMedia writes segment_<id>_<i>.mp4
\* for one segment after the other, a download or a copy of the fallback; it
\* throws when the fallback copy fails too
assembleDynamicVideo_downloadSegmentMedia ==
    /\ Assembling("assembleDynamicVideo", "download")
    /\ \/ call' = [call EXCEPT !.temp = @ \cup {SegmentFile(call.i)},
                               !.i = @ + 1,
                               !.pc = IF call.i + 1 = call.segments
                                      THEN "subtitles" ELSE "download"]
       \/ call' = AssemblyFailed(call, AssemblyFailure_of(call.fn))
    /\ UNCHANGED <<jobs, reqs, runs, raced, resp, view>>

\* both: generateSubtitles writes subtitles_<id>.srt unless addSubtitles is false
assembly_generateSubtitles ==
    /\ call.fn \in AssemblyFns /\ ~call.done /\ call.pc = "subtitles"
    /\ IF call.addSubtitles
       THEN \/ call' = [call EXCEPT !.temp = @ \cup {SubtitleFile}, !.pc = "ffmpeg"]
            \/ call' = AssemblyFailed(call, AssemblyFailure_of(call.fn))
       ELSE call' = [call EXCEPT !.pc = "ffmpeg"]
    /\ UNCHANGED <<jobs, reqs, runs, raced, resp, view>>

\* assembleVideo, step 3: ffmpeg writes the output to the output directory
assembleVideo_assembleVideoWithFFmpeg ==
    /\ Assembling("assembleVideo", "ffmpeg")
    /\ \/ call' = [call EXCEPT !.pc = "info"]
       \/ call' = AssemblyFailed(call, AssemblyFailure_of(call.fn))
    /\ UNCHANGED <<jobs, reqs, runs, raced, resp, view>>

\* assembleDynamicVideo, step 4: the concat list is written, ffmpeg runs, and
\* the list is unlinked after ffmpeg has produced the output
assembleDynamicVideo_assembleDynamicVideoWithFFmpeg ==
    /\ Assembling("assembleDynamicVideo", "ffmpeg")
    /\ \/ /\ ~call.unlinkThrows
          /\ call' = [call EXCEPT !.pc = "info"]
       \/ call' = AssemblyFailed([call EXCEPT !.temp = @ \cup {ConcatFile}],
                                 AssemblyFailure_of(call.fn))
    /\ UNCHANGED <<jobs, reqs, runs, raced, resp, view>>

\* both: ffprobe reads the output
assembly_getVideoInfo ==
    /\ call.fn \in AssemblyFns /\ ~call.done /\ call.pc = "info"
    /\ \/ call' = [call EXCEPT !.pc = "cleanup"]
       \/ call' = AssemblyFailed(call, AssemblyFailure_of(call.fn))
    /\ UNCHANGED <<jobs, reqs, runs, raced, resp, view>>

\* the files handed to cleanupTempFiles
tempFiles(c) ==
    IF c.fn = "assembleVideo" THEN {BackgroundFile, SubtitleFile}
    ELSE {SubtitleFile} \cup {SegmentFile(i) : i \in 0 .. c.segments - 1}

\* cleanupTempFiles: every listed file that exists is unlinked; an unlink
\* that throws is logged and the file stays. The result is returned.
assembly_cleanupTempFiles ==
    /\ call.fn \in AssemblyFns /\ ~call.done /\ call.pc = "cleanup"
    /\ \E kept \in (IF call.unlinkThrows THEN SUBSET (call.temp \cap tempFiles(call))
                    ELSE {{}}) :
          call' = [call EXCEPT !.temp = (@ \ tempFiles(call)) \cup kept,
                               !.ret = "returned", !.done = TRUE]
    /\ UNCHANGED <<jobs, reqs, runs, raced, resp, view>>

InitAssembly ==
    /\ Boot
    /\ call \in [fn : AssemblyFns, addSubtitles : BOOLEAN, unlinkThrows : BOOLEAN,
                 segments : 1 .. MaxSegments, i : {0}, temp : {{}},
                 pc : {"download"}, ret : {"none"}, done : {FALSE}]

NextAssembly ==
    \/ assembleVideo_downloadBackgroundVideo
    \/ assembleDynamicVideo_downloadSegmentMedia
    \/ assembly_generateSubtitles
    \/ assembleVideo_assembleVideoWithFFmpeg
    \/ assembleDynamicVideo_assembleDynamicVideoWithFFmpeg
    \/ assembly_getVideoInfo
    \/ assembly_cleanupTempFiles

SpecAssembly == InitAssembly /\ [][NextAssembly]_vars

\* C39: when assembleVideo or assembleDynamicVideo has returned or thrown, no
\* file it created is left in the temp directory: the background or segment
\* clips, the subtitle file and the concat list are deleted on success and on
\* failure alike.
C39_TempFilesDeletedOnEveryExit ==
    (call.fn \in AssemblyFns /\ call.done) => call.temp = {}

\* ---------------------------------------------------------------------------
\* Storing scraped articles (storage.ts: saveDataToMongoDB; part_001: Text)
\* ---------------------------------------------------------------------------

MaxBatch == 2

ArticleTitles == {"Astana marathon", "Almaty metro"}

\* the batches handed to saveDataToMongoDB, by the titles of their entries
Batches == UNION {[1 .. n -> ArticleTitles] : n \in 1 .. MaxBatch}

\* the Text collection before the call, by the titles of its documents; the
\* schema declares no unique index on title
StoredTexts == {<< >>} \cup {<<t>> : t \in ArticleTitles}

Stored(texts, title) == \E k \in DOMAIN texts : texts[k] = title

\* data.map(async (el) => ...): the callback of entry k up to its first
\* await has issued Text.findOne; the answer arrives: a document with the
\* title exists and the entry is skipped, or none exists, or the query throws
entry_findOne(k) ==
    /\ call.fn = "saveDataToMongoDB" /\ call.pc[k] = "findOne"
    /\ \/ call' = [call EXCEPT !.pc[k] = IF Stored(call.texts, call.data[k])
                                         THEN "skipped" ELSE "save"]
       \/ call' = [call EXCEPT !.pc[k] = "rejected"]
    /\ UNCHANGED <<jobs, reqs, runs, raced, resp, view>>

\* new Text({...}).save(): the document is inserted, or the insert throws
entry_save(k) ==
    /\ call.fn = "saveDataToMongoDB" /\ call.pc[k] = "save"
    /\ \/ call' = [call EXCEPT !.texts = Append(@, call.data[k]),
                               !.pc[k] = "saved"]
       \/ call' = [call EXCEPT !.pc[k] = "rejected"]
    /\ UNCHANGED <<jobs, reqs, runs, raced, resp, view>>

Settled(pc) == pc \in {"skipped", "saved", "rejected"}

\* await Promise.all(...): it resolves when every entry has settled and
\* rejects with the first rejection, which the catch block logs; the entries
\* still running go on after the function has returned
saveDataToMongoDB_return ==
    /\ call.fn = "saveDataToMongoDB" /\ ~call.done
    /\ \/ \A k \in DOMAIN call.pc : Settled(call.pc[k])
       \/ \E k \in DOMAIN call.pc : call.pc[k] = "rejected"
    /\ call' = [call EXCEPT !.done = TRUE]
    /\ UNCHANGED <<jobs, reqs, runs, raced, resp, view>>

InitStorage ==
    /\ Boot
    /\ \E data \in Batches, texts \in StoredTexts :
          call = [fn |-> "saveDataToMongoDB", data |-> data, texts |-> texts,
                  pc |-> [k \in DOMAIN data |-> "findOne"], done |-> FALSE]

NextStorage ==
    \/ \E k \in 1 .. MaxBatch : k \in DOMAIN call.pc /\ entry_findOne(k)
    \/ \E k \in 1 .. MaxBatch : k \in DOMAIN call.pc /\ entry_save(k)
    \/ saveDataToMongoDB_return

SpecStorage == InitStorage /\ [][NextStorage]_vars

\* C40: the Text collection never holds two documents with the same title
\* because of saveDataToMongoDB: an entry whose title is stored is skipped,
\* also when the batch holds the title twice and its entries run concurrently.
C40_NoTwoTextsWithSameTitle ==
    call.fn = "saveDataToMongoDB"
    => \A i, j \in DOMAIN call.texts :
          i # j => call.texts[i] # call.texts[j]

====
